---- MODULE Spec2Model ----
(***************************************************************************)
(* A model of pathfinder, the HTTP request router of                       *)
(* src/pathfinder/__init__.py: Finder (construction, _resolve, _handle,    *)
(* the 404/500 hooks) and the Response objects it produces.                *)
(*                                                                         *)
(* Python strings are sequences: a path is a sequence of one-character     *)
(* strings, a response body is a sequence of bytes, a unicode object is a  *)
(* sequence of code points.  Header names and values are TLA+ strings.     *)
(***************************************************************************)
EXTENDS Integers, Sequences, FiniteSets, TLC

\* ------------------------------------------------------------------ bounds

\* longest request path the adapter hands to the router
MaxPathLen == 3

\* most entries of the urlmap the outer Finder is constructed with
MaxRoutes == 2

\* ---------------------------------------------------------- small helpers

SeqsUpTo(S, n) == UNION {[1..k -> S] : k \in 0..n}

Drop(s, n) == SubSeq(s, n + 1, Len(s))

\* str(n) for n >= 0: the decimal digits of n
Digit(d) ==
    CASE d = 0 -> "0" [] d = 1 -> "1" [] d = 2 -> "2" [] d = 3 -> "3"
      [] d = 4 -> "4" [] d = 5 -> "5" [] d = 6 -> "6" [] d = 7 -> "7"
      [] d = 8 -> "8" [] d = 9 -> "9"

RECURSIVE Str(_)
Str(n) == IF n < 10 THEN Digit(n) ELSE Str(n \div 10) \o Digit(n % 10)

\* ------------------------------------------------------------ HTTP methods

ALL_METHODS ==
    <<"OPTIONS", "GET", "HEAD", "POST", "PUT", "DELETE", "TRACE", "CONNECT">>

\* str.upper() and str.lower() on the method names and the keys that occur
Upper(s) ==
    CASE s = "get" -> "GET" [] s = "post" -> "POST" [] s = "put" -> "PUT"
      [] s = "head" -> "HEAD" [] s = "options" -> "OPTIONS"
      [] s = "delete" -> "DELETE" [] s = "trace" -> "TRACE"
      [] s = "connect" -> "CONNECT" [] OTHER -> s

Lower(s) ==
    CASE s = "GET" -> "get" [] s = "POST" -> "post" [] s = "PUT" -> "put"
      [] s = "HEAD" -> "head" [] s = "OPTIONS" -> "options"
      [] s = "DELETE" -> "delete" [] s = "TRACE" -> "trace"
      [] s = "CONNECT" -> "connect" [] s = "A" -> "a"
      [] s = "Content-Type" -> "content-type"
      [] s = "CONTENT-TYPE" -> "content-type"
      [] s = "Set-Cookie" -> "set-cookie"
      [] s = "Content-Length" -> "content-length"
      [] s = "X-A" -> "x-a" [] OTHER -> s

\* ------------------------------------------------------ regular expressions

\* The characters of request paths; \w matches the ones that are not "/".
Alphabet == {"/", "a"}

IsWord(c) == c # "/"

\* A compiled pattern  ^ lit  [ (\w+) | (?P<name>\w+) ]  [ $ ]
Regex(lit, cap, dollar) == [lit |-> lit, cap |-> cap, dollar |-> dollar]

\* the length of the longest run of \w characters of s that starts at s[from]
RECURSIVE WordRun(_, _)
WordRun(s, from) ==
    IF from <= Len(s) /\ IsWord(s[from]) THEN 1 + WordRun(s, from + 1) ELSE 0

NoMatch == [matched |-> FALSE, start |-> 0, end |-> 0,
            groups |-> <<>>, groupdict |-> {}]

\* regex.match(path): the match is tried at offset 0 only.  \w+ is greedy and
\* giving characters back never helps a following $, so the match, when there
\* is one, is unique.  end is the offset one past the matched span.
Match(regex, path) ==
    LET n == Len(regex.lit)
        run == WordRun(path, n + 1)
        e == IF regex.cap = "none" THEN n ELSE n + run
        g == SubSeq(path, n + 1, n + run)
    IN  IF /\ Len(path) >= n
           /\ SubSeq(path, 1, n) = regex.lit
           /\ (regex.cap # "none" => run >= 1)
           /\ (regex.dollar => e = Len(path))
        THEN [matched |-> TRUE, start |-> 0, end |-> e,
              groups |-> IF regex.cap = "none" THEN <<>> ELSE <<g>>,
              groupdict |-> IF regex.cap = "named" THEN {<<"name", g>>} ELSE {}]
        ELSE NoMatch

\* ----------------------------------------------------------- Finder.__init__

\* Route targets: application handler functions and Finder instances.
Handlers == {"h1", "h2"}

FinderIds == {"outer", "sub"}

None == "None"

isinstance_Finder(target) == target \in FinderIds

\* A urlmap entry is (regex, mapping); the mapping is either a bare target
\* (a Finder or a callable) or a dict from HTTP verb to target, given here by
\* its items.
Bare(target) == [bare |-> TRUE, target |-> target, items |-> <<>>]

Dict(items) == [bare |-> FALSE, target |-> None, items |-> items]

\* a defect: the new candidate goes to the front of the verb's list
setdefault_prepend(map, key, item) ==
    IF key \in DOMAIN map
    THEN [map EXCEPT ![key] = <<item>> \o @]
    ELSE map @@ (key :> <<item>>)

\* self._map.setdefault(key, []).append(item)
setdefault_append(map, key, item) ==
    IF key \in DOMAIN map
    THEN [map EXCEPT ![key] = Append(@, item)]
    ELSE map @@ (key :> <<item>>)

\* for verb in ALL_METHODS: setdefault(verb.lower(), []).append((regex, mapping))
RECURSIVE AddAllMethods(_, _, _, _)
AddAllMethods(map, regex, target, i) ==
    IF i > Len(ALL_METHODS) THEN map
    ELSE AddAllMethods(
            setdefault_append(map, Lower(ALL_METHODS[i]), <<regex, target>>),
            regex, target, i + 1)

\* for verb, handler in mapping.iteritems(): setdefault(...).append(...)
RECURSIVE AddItems(_, _, _, _)
AddItems(map, regex, items, i) ==
    IF i > Len(items) THEN map
    ELSE AddItems(
            setdefault_append(map, Lower(items[i][1]), <<regex, items[i][2]>>),
            regex, items, i + 1)

\* Finder.__init__(urlmap): the per-verb candidate lists, in urlmap order
RECURSIVE Finder_init(_, _, _)
Finder_init(map, urlmap, i) ==
    IF i > Len(urlmap) THEN map
    ELSE LET regex == urlmap[i][1]
             mapping == urlmap[i][2]
         IN  Finder_init(
                IF mapping.bare
                THEN AddAllMethods(map, regex, mapping.target, 1)
                ELSE AddItems(map, regex, mapping.items, 1),
                urlmap, i + 1)

EmptyMap == [k \in {} |-> <<>>]

\* A Finder instance: its _map and whether its class overrides the hooks.
Finder(urlmap, overrides) ==
    [map |-> Finder_init(EmptyMap, urlmap, 1), overrides |-> overrides]

\* self._map.get(key, ())
map_get(map, key) == IF key \in DOMAIN map THEN map[key] ELSE <<>>

\* ------------------------------------------------------------ Finder._resolve

NotResolved == [handler |-> None, args |-> <<>>, kwargs |-> {}, remaining |-> <<>>]

\* a defect: the matched span is not removed from the path handed down
resolved_unstripped(handler, path, match) ==
    [handler |-> handler,
     args |-> IF isinstance_Finder(handler) \/ match.groupdict # {}
              THEN <<>> ELSE match.groups,
     kwargs |-> IF isinstance_Finder(handler) THEN {} ELSE match.groupdict,
     remaining |-> IF isinstance_Finder(handler) THEN path ELSE <<>>]

\* a defect: the groups are passed positionally whether or not any is named
resolved_both_captures(handler, path, match) ==
    IF isinstance_Finder(handler)
    THEN [handler |-> handler, args |-> <<>>, kwargs |-> {},
          remaining |-> SubSeq(path, 1, match.start) \o Drop(path, match.end)]
    ELSE [handler |-> handler,
          args |-> match.groups,
          kwargs |-> match.groupdict,
          remaining |-> <<>>]

\* a defect: the matched span, not the rest, is handed to the nested Finder
resolved_keeps_match(handler, path, match) ==
    IF isinstance_Finder(handler)
    THEN [handler |-> handler, args |-> <<>>, kwargs |-> {},
          remaining |-> SubSeq(path, 1, match.end)]
    ELSE [handler |-> handler,
          args |-> IF match.groupdict # {} THEN <<>> ELSE match.groups,
          kwargs |-> match.groupdict,
          remaining |-> <<>>]

\* what _resolve returns for candidate (regex, handler) with its match
resolved(handler, path, match) ==
    IF isinstance_Finder(handler)
    THEN [handler |-> handler, args |-> <<>>, kwargs |-> {},
          remaining |-> SubSeq(path, 1, match.start) \o Drop(path, match.end)]
    ELSE [handler |-> handler,
          args |-> IF match.groupdict # {} THEN <<>> ELSE match.groups,
          kwargs |-> match.groupdict,
          remaining |-> <<>>]

\* a defect: the loop does not stop at the first match, the last one decides
RECURSIVE resolve_from_last(_, _, _)
resolve_from_last(candidates, path, i) ==
    IF i > Len(candidates) THEN NotResolved
    ELSE LET later == resolve_from_last(candidates, path, i + 1)
             match == Match(candidates[i][1], path)
         IN  IF later.handler # None THEN later
             ELSE IF match.matched
                  THEN resolved(candidates[i][2], path, match)
                  ELSE NotResolved

\* the loop of _resolve from candidate i on: the first candidate whose regex
\* matches decides, and nothing after it is looked at
RECURSIVE resolve_from(_, _, _)
resolve_from(candidates, path, i) ==
    IF i > Len(candidates) THEN NotResolved
    ELSE LET regex == candidates[i][1]
             handler == candidates[i][2]
             match == Match(regex, path)
         IN  IF match.matched
             THEN resolved(handler, path, match)
             ELSE resolve_from(candidates, path, i + 1)

\* a defect: the candidates of GET are scanned whatever the request's method
resolve_any_method(finder, method, path) ==
    resolve_from(map_get(finder.map, "get"), path, 1)

resolve(finder, method, path) ==
    resolve_from(map_get(finder.map, Lower(method)), path, 1)

\* ------------------------------------------------------------------ Response

\* Response(content, code=200, headers=None).  headers holds the items of the
\* header multimap in insertion order; by names the code that built the
\* object and serves as the object's identity.
Response(content, code, headers, by) ==
    [type |-> "Response", content |-> content, code |-> code,
     headers |-> headers, by |-> by]

\* the module-level sentinel NoResponse = object()
NoResponse ==
    [type |-> "NoResponse", content |-> <<>>, code |-> 0,
     headers |-> <<>>, by |-> <<"pathfinder", "NoResponse">>]

\* an exception instance of class cls raised at the place where
Exception(cls, where) ==
    [type |-> "exception", content |-> <<>>, code |-> 0,
     headers |-> <<>>, by |-> <<cls, where>>]

NoValue ==
    [type |-> "None", content |-> <<>>, code |-> 0,
     headers |-> <<>>, by |-> <<None, None>>]

isinstance_Response(v) == v.type = "Response"

\* the headers named key, compared case-insensitively as the header multimap
\* does; header names are spelled in the two casings that occur
HeaderFold(k) ==
    CASE k = "Content-Length" -> "content-length"
      [] k = "Content-Type" -> "content-type"
      [] k = "Content-Encoding" -> "content-encoding"
      [] OTHER -> k

HeaderValues(headers, key) ==
    SelectSeq(headers, LAMBDA kv : HeaderFold(kv[1]) = HeaderFold(key))

\* ------------------------------------------------------------- text values

\* unicode.encode('utf8') of one code point
Utf8Bytes(cp) ==
    IF cp < 128 THEN <<cp>>
    ELSE IF cp < 2048 THEN <<192 + (cp \div 64), 128 + (cp % 64)>>
    ELSE <<224 + (cp \div 4096), 128 + ((cp \div 64) % 64), 128 + (cp % 64)>>

\* a lone surrogate has no UTF-8 encoding: encode raises UnicodeEncodeError
Utf8Encodable(u) == \A i \in 1..Len(u) : ~(u[i] >= 55296 /\ u[i] <= 57343)

RECURSIVE Utf8Encode(_)
Utf8Encode(u) ==
    IF u = <<>> THEN <<>> ELSE Utf8Bytes(Head(u)) \o Utf8Encode(Tail(u))

\* ------------------------------------------------- what application code does

\* "OK!" as a str, u"\xe9" and a lone surrogate as unicode
StrValues == {<<79, 75, 33>>}

UnicodeValues == {<<233>>, <<55296>>}

\* What a handler does when it is called: it returns a str, a unicode, a
\* Response of its own, a (finder, request) tuple or NoResponse, or it raises.
HandlerBehaviours ==
    {[kind |-> "str", value |-> v] : v \in StrValues}
    \cup {[kind |-> "unicode", value |-> v] : v \in UnicodeValues}
    \cup {[kind |-> k, value |-> <<>>] :
            k \in {"Response", "tuple", "NoResponse", "raise"}}

\* the Response a handler builds itself (test_finder.py handler_ok)
HandlerResponse(h) ==
    Response(<<79, 75, 33>>, 200, <<<<"content-length", "3">>>>, <<"handler", h>>)

\* What an overriding on_404 / on_500 does: it returns a Response of its own,
\* NoResponse or some other object, or it raises.
HookBehaviours == {"Response", "NoResponse", "other", "raise"}

\* the Response an overriding hook builds (test_finder.py FourOhFourFinder)
HookResponse(hook, f) == Response(<<52, 48, 52>>, 200, <<>>, <<hook, f>>)

\* ------------------------------------------------------ Finder hooks, _handle

\* The outcome of one method body: it returns value, raises value, or goes on
\* into self._on_404 / self._on_500 (with the exception triple).
Return(v) == [pc |-> "return", value |-> v, triple |-> None]

Raise(v) == [pc |-> "raise", value |-> v, triple |-> None]

Goto(pc, triple) == [pc |-> pc, value |-> NoValue, triple |-> triple]

\* Finder.on_404, as defined by the base class
Finder_on_404(f) ==
    Response(<<>>, 404, <<<<"Content-Length", "0">>>>, <<"on_404", f>>)

\* Finder.on_500, as defined by the base class
Finder_on_500(f) ==
    Response(<<>>, 500, <<<<"Content-Length", "0">>>>, <<"on_500", f>>)

\* what self.on_404 / self.on_500 give back under behaviour b: the base class
\* method unless the Finder's class overrides it
HookValue(hook, f, overrides, b) ==
    IF ~overrides
    THEN IF hook = "on_404" THEN Finder_on_404(f) ELSE Finder_on_500(f)
    ELSE CASE b = "Response" -> HookResponse(hook, f)
           [] b = "NoResponse" -> NoResponse
           [] OTHER -> [NoValue EXCEPT !.type = "other"]

\* Finder.on_500(request, triple), line 237: the method is taken from the
\* class, so the Request is bound to self and one argument is missing.  The
\* call raises TypeError before the method body runs.
unbound_Finder_on_500(args) ==
    IF Len(args) = 3 /\ args[1] = "Finder"
    THEN Return(Finder_on_500("Finder"))
    ELSE Raise(Exception("TypeError", "Finder.on_500"))

\* Finder._on_500(request, triple) of Finder f, whose on_500 behaves as b
on_500(f, overrides, b) ==
    IF overrides /\ b = "raise"
    THEN unbound_Finder_on_500(<<"Request", "tuple">>)
    ELSE LET response == HookValue("on_500", f, overrides, b)
         IN  IF isinstance_Response(response) \/ response = NoResponse
             THEN Return(response)
             ELSE Return(Response(
                    <<83, 101, 114, 118, 101, 114, 32, 69, 114, 114, 111, 114>>,
                    500,
                    <<<<"Content-Length", "12">>, <<"Content-Type", "text/plain">>>>,
                    <<"_on_500", f>>))

\* Finder._on_404(request) of Finder f, whose on_404 behaves as b.  In the
\* last return, lines 226-228, the two header tuples are not separated by a
\* comma: the first tuple is called with the second as arguments, which
\* raises TypeError before any Response is built.
on_404(f, overrides, b) ==
    IF overrides /\ b = "raise"
    THEN Goto("_on_500", "on_404 exception")
    ELSE LET response == HookValue("on_404", f, overrides, b)
         IN  IF isinstance_Response(response) \/ response = NoResponse
             THEN Return(response)
             ELSE Raise(Exception("TypeError", "_on_404"))

\* lines 120-122: a str is wrapped in a Response with its length
coerce_str(f, response) ==
    Return(Response(response, 200,
                    <<<<"Content-Length", Str(Len(response))>>>>,
                    <<"_handle", f>>))

\* a defect: the length is taken before the unicode is encoded
coerce_unicode_unencoded_length(f, u) ==
    IF ~Utf8Encodable(u)
    THEN Goto("_on_500", "UnicodeEncodeError")
    ELSE Return(Response(Utf8Encode(u), 200,
                    <<<<"Content-Length", Str(Len(u))>>,
                      <<"Content-Encoding", "UTF-8">>>>,
                    <<"_handle", f>>))

\* lines 125-134: a unicode is encoded to UTF-8 and wrapped in a Response
\* with the length of the encoded bytes
coerce_unicode(f, u) ==
    IF ~Utf8Encodable(u)
    THEN Goto("_on_500", "UnicodeEncodeError")
    ELSE LET response == Utf8Encode(u)
         IN  Return(Response(response, 200,
                    <<<<"Content-Length", Str(Len(response))>>,
                      <<"Content-Encoding", "UTF-8">>>>,
                    <<"_handle", f>>))

\* a defect: a return value that is no Response is returned as it is
coerce_other_unchecked(f, b) ==
    Return(IF b.kind = "NoResponse" THEN NoResponse
           ELSE [NoValue EXCEPT !.type = b.kind])

\* lines 137-143: any other return value that is no Response is a TypeError
coerce_other(f, b) == Goto("_on_500", "TypeError")

\* Finder._handle from the handler call on: handler h is called and behaves
\* as b, and its return value is coerced
handle_call(f, h, b) ==
    CASE b.kind = "raise" -> Goto("_on_500", "RuntimeError")
      [] b.kind = "str" -> coerce_str(f, b.value)
      [] b.kind = "unicode" -> coerce_unicode(f, b.value)
      [] b.kind = "Response" -> Return(HandlerResponse(h))
      [] OTHER -> coerce_other(f, b)

\* ------------------------------------------------------------------- state

VARIABLES
    finders,    \* the Finder instances, by name
    request,    \* the Request being dispatched
    pc,         \* where the dispatch is: idle, _handle, _on_404, _on_500, done
    cur,        \* the Finder whose method is running
    path,       \* the path argument of the running _handle
    triple,     \* the exception triple handed to _on_500
    handled,    \* the _handle calls made so far: Finder and path
    calls,      \* the handler calls made so far
    hooks,      \* the on_404 / on_500 calls made so far
    result,     \* how the outermost _handle ended
    ctor,       \* the Finder(urlmap) calls the program started with
    omds,       \* the multimap objects, by identity
    copied,     \* the identity of the copy the program holds, or 0
    op,         \* the last multimap operation: its arguments and its result
    flows,      \* the dispatches in flight at once, each with its own state
    req,        \* the Request whose body is read
    access,     \* the last access to that Request, and what the reads gave
    sending     \* the Response on its way out: how far it is, and what was sent

vars ==
    <<finders, request, pc, cur, path, triple, handled, calls, hooks, result,
      ctor, omds, copied, op, flows, req, access, sending>>

\* what a dispatch leaves alone besides its own variables
beyond == <<ctor, omds, copied, op, flows, req, access, sending>>

\* the methods and paths of the requests the adapters hand over
RawMethods == {"GET", "post"}

Paths == SeqsUpTo(Alphabet, MaxPathLen)

\* the urlmaps the Finders are constructed with
OuterEntries ==
    {<<regex, mapping>> :
        regex \in {Regex(<<"/">>, "none", FALSE),
                   Regex(<<"/", "a">>, "none", FALSE)},
        mapping \in {Bare("sub"), Dict(<<<<"GET", "h1">>>>)}}

SubUrlMaps ==
    {<<>>,
     <<<<Regex(<<"a">>, "none", TRUE), Dict(<<<<"GET", "h2">>>>)>>>>,
     <<<<Regex(<<>>, "named", FALSE), Bare("h2")>>,
       <<Regex(<<"/">>, "pos", TRUE), Dict(<<<<"POST", "h1">>>>)>>>>}

NoRequest == [method |-> None, path |-> <<>>]

NoResult == [outcome |-> "none", value |-> NoValue]

\* Request.__init__: the method is upper-cased
Request_init(method, p) == [method |-> Upper(method), path |-> p]

\* no multimap operation on record
NoOp == [name |-> "none", obj |-> 0, key |-> None, value |-> 0,
         outcome |-> "none", ret |-> None, before |-> <<>>]

\* no multimap is in use
NoMultimaps ==
    /\ omds = <<>>
    /\ copied = 0
    /\ op = NoOp

\* no dispatches run side by side
NoFlows == flows = <<>>

\* no Request body is read
NoReads ==
    /\ req = <<>>
    /\ access = <<>>

\* no Response is on its way out
NoSend == sending = <<>>

\* no constructor call on record
NoCtor == [urlmaps |-> <<>>, outcome |-> "none", value |-> NoValue]

\* sub is constructed first, then outer, whose urlmap may name sub
Init ==
    /\ \E subMap \in SubUrlMaps, outerMap \in SeqsUpTo(OuterEntries, MaxRoutes),
          subOver \in BOOLEAN, outerOver \in BOOLEAN :
            finders = [f \in FinderIds |->
                         IF f = "sub" THEN Finder(subMap, subOver)
                         ELSE Finder(outerMap, outerOver)]
    /\ request = NoRequest
    /\ pc = "idle"
    /\ cur = None
    /\ path = <<>>
    /\ triple = None
    /\ handled = <<>>
    /\ calls = <<>>
    /\ hooks = <<>>
    /\ result = NoResult
    /\ ctor = NoCtor
    /\ NoMultimaps
    /\ NoFlows
    /\ NoReads
    /\ NoSend

\* An adapter (wsgi, gevent_http_handle) builds the Request and calls
\* self._handle(request.path, request) on the outermost Finder.
Dispatch(method, p) ==
    /\ pc = "idle"
    /\ request' = Request_init(method, p)
    /\ cur' = "outer"
    /\ path' = p
    /\ pc' = "_handle"
    /\ UNCHANGED <<finders, triple, handled, calls, hooks, result>>
    /\ UNCHANGED beyond

\* how a method body that ends the dispatch, or goes on into a hook, leaves
\* the state
Finish(step) ==
    /\ pc' = IF step.pc \in {"return", "raise"} THEN "done" ELSE step.pc
    /\ triple' = step.triple
    /\ result' = CASE step.pc = "return" ->
                        [outcome |-> "returned", value |-> step.value]
                   [] step.pc = "raise" ->
                        [outcome |-> "raised", value |-> step.value]
                   [] OTHER -> result

\* a defect: a candidate that is a nested Finder with no match for the
\* remainder is passed over, and the search goes on among the later candidates
RECURSIVE resolve_backtracking(_, _, _, _)
resolve_backtracking(candidates, method, p, i) ==
    IF i > Len(candidates) THEN NotResolved
    ELSE LET match == Match(candidates[i][1], p)
             r == resolved(candidates[i][2], p, match)
         IN  IF /\ match.matched
                /\ (isinstance_Finder(r.handler) =>
                        resolve(finders[r.handler], method, r.remaining).handler
                            # None)
             THEN r
             ELSE resolve_backtracking(candidates, method, p, i + 1)

Resolved_backtracking ==
    resolve_backtracking(map_get(finders[cur].map, Lower(request.method)),
                         request.method, path, 1)

\* handler, args, kwargs, remaining = self._resolve(method, path)
Resolved == resolve(finders[cur], request.method, path)

\* _handle: no route matched, bail with 404
HandleNotFound ==
    /\ pc = "_handle"
    /\ Resolved.handler = None
    /\ handled' = Append(handled, [finder |-> cur, path |-> path])
    /\ pc' = "_on_404"
    /\ UNCHANGED <<finders, request, cur, path, triple, calls, hooks, result>>
    /\ UNCHANGED beyond

\* _handle: the target is a Finder, return handler._handle(remaining, request)
HandleDelegate ==
    /\ pc = "_handle"
    /\ isinstance_Finder(Resolved.handler)
    /\ handled' = Append(handled, [finder |-> cur, path |-> path])
    /\ cur' = Resolved.handler
    /\ path' = Resolved.remaining
    /\ UNCHANGED <<finders, request, pc, triple, calls, hooks, result>>
    /\ UNCHANGED beyond

\* _handle: the target is a handler; it is called and its result coerced
HandleCall(b) ==
    /\ pc = "_handle"
    /\ Resolved.handler \in Handlers
    /\ handled' = Append(handled, [finder |-> cur, path |-> path])
    /\ calls' = Append(calls, [finder |-> cur, handler |-> Resolved.handler,
                               depth |-> Len(handled) + 1,
                               args |-> Resolved.args,
                               kwargs |-> Resolved.kwargs, behaviour |-> b])
    /\ Finish(handle_call(cur, Resolved.handler, b))
    /\ UNCHANGED <<finders, request, cur, path, hooks>>
    /\ UNCHANGED beyond

\* the behaviours the hook of Finder f can show
BehavioursOf(f) == IF finders[f].overrides THEN HookBehaviours ELSE {"default"}

\* _on_404 of the running Finder
On404(b) ==
    /\ pc = "_on_404"
    /\ b \in BehavioursOf(cur)
    /\ hooks' = Append(hooks, [finder |-> cur, hook |-> "on_404",
                               triple |-> None, behaviour |-> b])
    /\ Finish(on_404(cur, finders[cur].overrides, b))
    /\ UNCHANGED <<finders, request, cur, path, handled, calls>>
    /\ UNCHANGED beyond

\* a defect: the fault is handed to the outermost Finder's _on_500
On500_outermost(b) ==
    /\ pc = "_on_500"
    /\ b \in BehavioursOf("outer")
    /\ hooks' = Append(hooks, [finder |-> "outer", hook |-> "on_500",
                               triple |-> triple, behaviour |-> b])
    /\ Finish(on_500("outer", finders["outer"].overrides, b))
    /\ UNCHANGED <<finders, request, cur, path, handled, calls>>
    /\ UNCHANGED beyond

\* _on_500 of the running Finder
On500(b) ==
    /\ pc = "_on_500"
    /\ b \in BehavioursOf(cur)
    /\ hooks' = Append(hooks, [finder |-> cur, hook |-> "on_500",
                               triple |-> triple, behaviour |-> b])
    /\ Finish(on_500(cur, finders[cur].overrides, b))
    /\ UNCHANGED <<finders, request, cur, path, handled, calls>>
    /\ UNCHANGED beyond

\* the adapter has the outcome; the next request starts from scratch
Done ==
    /\ pc = "done"
    /\ pc' = "idle"
    /\ request' = NoRequest
    /\ cur' = None
    /\ path' = <<>>
    /\ triple' = None
    /\ handled' = <<>>
    /\ calls' = <<>>
    /\ hooks' = <<>>
    /\ result' = NoResult
    /\ UNCHANGED finders
    /\ UNCHANGED beyond

Next ==
    \/ \E method \in RawMethods, p \in Paths : Dispatch(method, p)
    \/ HandleNotFound
    \/ HandleDelegate
    \/ \E b \in HandlerBehaviours : HandleCall(b)
    \/ \E b \in HookBehaviours \cup {"default"} : On404(b)
    \/ \E b \in HookBehaviours \cup {"default"} : On500(b)
    \/ Done

Spec == Init /\ [][Next]_vars

\* --------------------------------------------------- the program from its start

\* urlmap entries in the form of the class docstring and of example.py:
\* (regex, handler, list of methods)
ThreeTuples ==
    {<<Regex(<<"/">>, "none", FALSE), "h1", <<"GET">>>>,
     <<Regex(<<"/", "a">>, "none", FALSE), "sub", ALL_METHODS>>}

NewEntries == OuterEntries \cup ThreeTuples

\* for regex, mapping in urlmap: an entry that is not a pair cannot be
\* unpacked into the two names
unpacks(entry) == Len(entry) = 2

\* Finder(urlmap): the instance, or the ValueError of the unpacking
Finder_new(urlmap, overrides) ==
    IF \A i \in 1..Len(urlmap) : unpacks(urlmap[i])
    THEN Return(Finder(urlmap, overrides))
    ELSE Raise(Exception("ValueError", "__init__"))

Unbuilt == [map |-> EmptyMap, overrides |-> FALSE]

InitNew ==
    /\ finders = [f \in FinderIds |-> Unbuilt]
    /\ request = NoRequest
    /\ pc = "new"
    /\ cur = None
    /\ path = <<>>
    /\ triple = None
    /\ handled = <<>>
    /\ calls = <<>>
    /\ hooks = <<>>
    /\ result = NoResult
    /\ ctor = NoCtor
    /\ NoMultimaps
    /\ NoFlows
    /\ NoReads
    /\ NoSend

\* sub_finder = Finder(sub_urls); finder = Finder(urls): a constructor that
\* raises ends the program before anything is served
New(subMap, outerMap) ==
    /\ pc = "new"
    /\ LET sub == Finder_new(subMap, FALSE)
           outer == Finder_new(outerMap, FALSE)
           failed == IF sub.pc = "raise" THEN sub ELSE outer
       IN  IF sub.pc = "return" /\ outer.pc = "return"
           THEN /\ finders' = [f \in FinderIds |->
                                 IF f = "sub" THEN sub.value ELSE outer.value]
                /\ ctor' = [urlmaps |-> <<subMap, outerMap>>,
                            outcome |-> "returned", value |-> NoValue]
                /\ pc' = "idle"
           ELSE /\ ctor' = [urlmaps |-> <<subMap, outerMap>>,
                            outcome |-> "raised", value |-> failed.value]
                /\ pc' = "exit"
                /\ UNCHANGED finders
    /\ UNCHANGED <<request, cur, path, triple, handled, calls, hooks, result>>
    /\ UNCHANGED <<omds, copied, op, flows, req, access, sending>>

NextNew ==
    \/ \E subMap \in SubUrlMaps, outerMap \in SeqsUpTo(NewEntries, MaxRoutes) :
            New(subMap, outerMap)
    \/ Next

SpecNew == InitNew /\ [][NextNew]_vars

\* ===================================================================== claims

\* the candidate list Finder f scans for the request's method
Candidates(f) == map_get(finders[f].map, Lower(request.method))

\* the candidates of Finder f whose pattern matches at the start of p
Matching(f, p) ==
    {j \in 1..Len(Candidates(f)) : Match(Candidates(f)[j][1], p).matched}

Least(S) == CHOOSE k \in S : \A j \in S : k <= j

\* what the i-th _handle of the dispatch went on to: the Finder it delegated
\* to, the handler it called, or None
Selected(i) ==
    IF i < Len(handled) THEN handled[i + 1].finder
    ELSE IF pc = "_handle" THEN cur
    ELSE IF calls # <<>> THEN calls[1].handler
    ELSE None

\* C1: every _handle of a dispatch goes on to the target of the first
\* candidate, in declaration order among the candidates of the request's
\* method, whose pattern matches at the start of the path; a later candidate
\* is never selected, whatever it matches.
C1_FirstMatchWins ==
    \A i \in 1..Len(handled) :
        LET f == handled[i].finder
            M == Matching(f, handled[i].path)
        IN  M # {} => Selected(i) = Candidates(f)[Least(M)][2]

\* C1 witness: two candidates with different targets match, the later one
\* matches more of the path, and the dispatch went to the first one's target
C1_Witness ==
    /\ pc = "done"
    /\ \E i \in 1..Len(handled) :
        LET f == handled[i].finder
            p == handled[i].path
            M == Matching(f, p)
        IN  \E j \in M, k \in M :
                /\ j = Least(M)
                /\ j < k
                /\ Candidates(f)[j][2] # Candidates(f)[k][2]
                /\ Match(Candidates(f)[j][1], p).end
                     < Match(Candidates(f)[k][1], p).end
                /\ Selected(i) = Candidates(f)[j][2]

\* the value of the one header named key (compared case-insensitively) of
\* response r, or None when r has no such header or several
HeaderOf(r, key) ==
    LET hv == HeaderValues(r.headers, key)
    IN  IF Len(hv) = 1 THEN hv[1][2] ELSE None

\* the dispatch returned a response with this status, an empty body and
\* Content-Length 0
ReturnedEmpty(code) ==
    /\ result.outcome = "returned"
    /\ result.value.type = "Response"
    /\ result.value.code = code
    /\ result.value.content = <<>>
    /\ HeaderOf(result.value, "Content-Length") = "0"

\* the _handle that ended the dispatch
LastHandled == handled[Len(handled)]

\* C2: when no pattern declared for the request's method matches the path a
\* Finder is handed, and that Finder has the default on_404, the dispatch
\* calls no handler and returns status 404, empty content, Content-Length 0.
C2_Default404 ==
    (pc = "done" /\ handled # <<>>) =>
        LET f == LastHandled.finder
        IN  (Matching(f, LastHandled.path) = {} /\ ~finders[f].overrides) =>
                (calls = <<>> /\ ReturnedEmpty(404))

\* C2 witness: the outermost Finder misses although a pattern declared for
\* another method matches the path, and the default 404 was returned
C2_Witness ==
    /\ pc = "done"
    /\ Len(handled) = 1
    /\ Matching("outer", request.path) = {}
    /\ ~finders["outer"].overrides
    /\ \E verb \in DOMAIN finders["outer"].map :
         \E j \in 1..Len(finders["outer"].map[verb]) :
            Match(finders["outer"].map[verb][j][1], request.path).matched
    /\ ReturnedEmpty(404)

\* The span a pattern matches at the start of p ends at offset e: the literal,
\* then (for a capturing pattern) one or more \w characters, as many as there
\* are, and with $ nothing after the span.
SpanEnd(regex, p, e) ==
    LET n == Len(regex.lit)
    IN  /\ e \in n..Len(p)
        /\ \A k \in 1..n : p[k] = regex.lit[k]
        /\ (regex.cap = "none" => e = n)
        /\ (regex.cap # "none" =>
                /\ e > n
                /\ \A k \in (n + 1)..e : IsWord(p[k])
                /\ (e < Len(p) => ~IsWord(p[e + 1])))
        /\ (regex.dollar => e = Len(p))

\* the path the i-th _handle handed to the Finder it delegated to
PathAfter(i) == IF i < Len(handled) THEN handled[i + 1].path ELSE path

\* the i-th _handle of the dispatch delegated to a nested Finder
Delegated(i) == i < Len(handled) \/ (i = Len(handled) /\ pc = "_handle")

\* C3: when a _handle delegates to a nested Finder, the nested Finder is
\* handed exactly the path with the span matched by the first matching
\* pattern removed: for a match ending at offset e, path[e:].
C3_StripsMatchedSpan ==
    \A i \in 1..Len(handled) :
        Delegated(i) =>
            LET f == handled[i].finder
                p == handled[i].path
                regex == Candidates(f)[Least(Matching(f, p))][1]
            IN  \E e \in 0..Len(p) :
                    /\ SpanEnd(regex, p, e)
                    /\ PathAfter(i) = [k \in 1..(Len(p) - e) |-> p[e + k]]

\* C3 witness: the outer Finder stripped a non-empty span, the nested Finder
\* got a non-empty remainder and its handler was called
C3_Witness ==
    /\ pc = "done"
    /\ Len(handled) = 2
    /\ handled[2].path # <<>>
    /\ Len(handled[2].path) < Len(handled[1].path)
    /\ calls # <<>>
    /\ calls[1].finder = "sub"

\* the first matching candidate of the i-th _handle is a nested Finder none
\* of whose candidates matches the remainder
NestedMiss(i) ==
    LET f == handled[i].finder
        p == handled[i].path
        M == Matching(f, p)
    IN  /\ M # {}
        /\ LET c == Candidates(f)[Least(M)]
           IN  /\ isinstance_Finder(c[2])
               /\ \E e \in 0..Len(p) :
                    /\ SpanEnd(c[1], p, e)
                    /\ Matching(c[2], Drop(p, e)) = {}

\* C4: once the first matching candidate is a nested Finder, no other
\* candidate of the parent is tried: when the nested Finder has no match, the
\* dispatch ends there, in the nested Finder's 404 path, with no handler
\* called, also when a later candidate of the parent matches the path.
C4_NoBacktracking ==
    pc = "done" =>
        \A i \in 1..Len(handled) :
            NestedMiss(i) =>
                /\ Len(handled) = i + 1
                /\ calls = <<>>
                /\ hooks # <<>>
                /\ hooks[1].finder = handled[i + 1].finder
                /\ hooks[1].hook = "on_404"
                /\ (~finders[hooks[1].finder].overrides =>
                        /\ ReturnedEmpty(404)
                        /\ result.value.by = <<"on_404", hooks[1].finder>>)

\* C4 witness: the nested Finder missed and returned its 404 although a later
\* candidate of the parent, a handler, matches the original path
C4_Witness ==
    /\ pc = "done"
    /\ Len(handled) = 2
    /\ NestedMiss(1)
    /\ \E k \in Matching("outer", request.path) :
            /\ k > Least(Matching("outer", request.path))
            /\ Candidates("outer")[k][2] \in Handlers
    /\ ReturnedEmpty(404)
    /\ result.value.by = <<"on_404", "sub">>

\* the handler's behaviour is a fault: it raises, or what it returns is
\* neither a Response nor text that can be encoded
Faulty(b) ==
    \/ b.kind \in {"raise", "tuple", "NoResponse"}
    \/ (b.kind = "unicode" /\ ~Utf8Encodable(b.value))

HookCalls(hook) == {k \in 1..Len(hooks) : hooks[k].hook = hook}

\* C5: when a dispatch ends in a nested Finder with a miss or a handler
\* fault, every hook call is a call of that nested Finder's own hook, no hook
\* of an ancestor is called, on_404 and on_500 are each called at most once
\* (on_404 for a miss, on_500 alone for a handler fault), and when the last
\* hook called returns a Response the dispatch returns that very Response.
C5_NestedHooksOnly ==
    (pc = "done" /\ Len(handled) >= 2) =>
        LET n == LastHandled.finder
            last == hooks[Len(hooks)]
        IN  /\ (calls = <<>> \/ Faulty(calls[1].behaviour)) <=> hooks # <<>>
            /\ hooks # <<>> =>
                /\ \A k \in 1..Len(hooks) : hooks[k].finder = n
                /\ Cardinality(HookCalls("on_404")) <= 1
                /\ Cardinality(HookCalls("on_500")) <= 1
                /\ (calls = <<>> => hooks[1].hook = "on_404")
                /\ (calls # <<>> => hooks[1].hook = "on_500" /\ Len(hooks) = 1)
                /\ (last.behaviour \in {"default", "Response"} =>
                        /\ result.outcome = "returned"
                        /\ result.value.type = "Response"
                        /\ result.value.by = <<last.hook, n>>)

\* C5 witness: a handler of the nested Finder raised, both Finders override
\* their hooks, and the dispatch returned the nested on_500's Response
C5_Witness ==
    /\ pc = "done"
    /\ Len(handled) = 2
    /\ finders["outer"].overrides
    /\ finders["sub"].overrides
    /\ calls # <<>>
    /\ calls[1].behaviour.kind = "raise"
    /\ hooks = <<[finder |-> "sub", hook |-> "on_500",
                  triple |-> "RuntimeError", behaviour |-> "Response"]>>
    /\ result.value = HookResponse("on_500", "sub")

C7_NoFaultEscapes ==
    pc = "done" =>
        /\ result.outcome = "returned"
        /\ (\E k \in HookCalls("on_500") :
                hooks[k].behaviour \in {"raise", "other"}) => ReturnedEmpty(500)

\* C8: when an overriding on_404 raises or returns something that is no
\* Response, a dispatch that found no route returns the built-in default 404
\* response (status 404, empty content, Content-Length 0) and no exception
\* leaves the dispatch.
C8_Fallback404 ==
    (/\ pc = "done"
     /\ \E k \in HookCalls("on_404") : hooks[k].behaviour \in {"raise", "other"}) =>
        /\ result.outcome = "returned"
        /\ ReturnedEmpty(404)

\* C9: a handler that returns a (nested Finder, request) pair makes the
\* dispatch go on in that nested Finder, whose response is the result; the
\* pair is an allowed return value and is not handed to the 500 path.
C9_PairDelegates ==
    (pc = "done" /\ calls # <<>> /\ calls[1].behaviour.kind = "tuple") =>
        /\ Len(handled) > calls[1].depth
        /\ \A k \in HookCalls("on_500") :
                ~(hooks[k].finder = calls[1].finder /\ hooks[k].triple = "TypeError")

\* the response the dispatch returned carries the length of its content in
\* its one Content-Length header
LengthOfContent ==
    HeaderOf(result.value, "Content-Length") = Str(Len(result.value.content))

\* C10: a str returned by a handler comes back as a new Response with status
\* 200, that content and its length as Content-Length; a unicode comes back
\* the same way with its UTF-8 encoding as content and the number of encoded
\* bytes as Content-Length; a Response returned by a handler comes back as
\* that very object, unchanged; in none of these cases is a hook called.
C10_Coercion ==
    (pc = "done" /\ calls # <<>> /\ ~Faulty(calls[1].behaviour)) =>
        LET b == calls[1].behaviour
            r == result.value
        IN  /\ hooks = <<>>
            /\ result.outcome = "returned"
            /\ r.type = "Response"
            /\ (b.kind = "str" =>
                    /\ r.code = 200
                    /\ r.content = b.value
                    /\ r.by = <<"_handle", calls[1].finder>>
                    /\ LengthOfContent)
            /\ (b.kind = "unicode" =>
                    /\ r.code = 200
                    /\ r.content = Utf8Encode(b.value)
                    /\ r.by = <<"_handle", calls[1].finder>>
                    /\ LengthOfContent)
            /\ (b.kind = "Response" => r = HandlerResponse(calls[1].handler))

\* C10 witness: u"\xe9" came back as the two bytes C3 A9 with Content-Length 2
C10_Witness ==
    /\ pc = "done"
    /\ calls # <<>>
    /\ calls[1].behaviour = [kind |-> "unicode", value |-> <<233>>]
    /\ result.outcome = "returned"
    /\ result.value.code = 200
    /\ result.value.content = <<195, 169>>
    /\ HeaderOf(result.value, "Content-Length") = "2"

\* ------------------------------------------------------------- construction

\* the mapping form of a urlmap entry: (regex, handler, methods) read as
\* (regex, {method: handler, ...})
AsMapping(entry) ==
    IF Len(entry) = 3
    THEN <<entry[1],
           Dict([i \in 1..Len(entry[3]) |-> <<entry[3][i], entry[2]>>])>>
    ELSE entry

MappingForm(urlmap) == [i \in 1..Len(urlmap) |-> AsMapping(urlmap[i])]

IsThreeTuple(entry) == Len(entry) = 3

\* the Finder constructed from the k-th urlmap on record: sub, then outer
Built(k) == IF k = 1 THEN "sub" ELSE "outer"

Verbs == {Lower(ALL_METHODS[m]) : m \in 1..Len(ALL_METHODS)}

\* C11: the constructor accepts entries of the form (pattern, target, list of
\* methods): the construction succeeds, and the Finder it yields has the
\* candidate lists of the same urlmap written in mapping form, so that the
\* target is a candidate under the listed methods and under no other.
C11_ThreeTupleForm ==
    ctor.outcome # "none" =>
        /\ ctor.outcome = "returned"
        /\ \A k \in 1..2 :
            /\ finders[Built(k)].map =
                   Finder_init(EmptyMap, MappingForm(ctor.urlmaps[k]), 1)
            /\ \A i \in 1..Len(ctor.urlmaps[k]), v \in Verbs :
                   LET entry == ctor.urlmaps[k][i]
                   IN  IsThreeTuple(entry) =>
                          ((\E j \in 1..Len(entry[3]) : Lower(entry[3][j]) = v)
                           <=> \E c \in 1..Len(map_get(finders[Built(k)].map, v)) :
                                  map_get(finders[Built(k)].map, v)[c] =
                                      <<entry[1], entry[2]>>)

\* entry binds a target under verb v
Binds(entry, v) ==
    \/ entry[2].bare
    \/ \E i \in 1..Len(entry[2].items) : Lower(entry[2].items[i][1]) = v

TargetUnder(entry, v) ==
    IF entry[2].bare THEN entry[2].target
    ELSE LET i == CHOOSE i \in 1..Len(entry[2].items) :
                      Lower(entry[2].items[i][1]) = v
         IN  entry[2].items[i][2]

\* the candidates urlmap declares for verb v, in the order of the urlmap
Declared(urlmap, v) ==
    LET bound == SelectSeq(urlmap, LAMBDA entry : Binds(entry, v))
    IN  [i \in 1..Len(bound) |-> <<bound[i][1], TargetUnder(bound[i], v)>>]

\* C12: an entry whose second element is a bare target (a handler or a nested
\* Finder) is a candidate under each of the eight methods of ALL_METHODS, and
\* the candidate list of every method holds the routes bound to that method
\* in the order the urlmap declares them.
C12_BareAllMethods ==
    ctor.outcome = "returned" =>
        \A k \in 1..2 :
            LET u == ctor.urlmaps[k]
                map == finders[Built(k)].map
            IN  /\ Cardinality(Verbs) = 8
                /\ \A i \in 1..Len(u), v \in Verbs :
                       u[i][2].bare =>
                           \E c \in 1..Len(map_get(map, v)) :
                               map_get(map, v)[c] = <<u[i][1], u[i][2].target>>
                /\ \A v \in Verbs : map_get(map, v) = Declared(u, v)
                /\ \A v \in DOMAIN map : v \in Verbs /\ map[v] # <<>>

\* C12 witness: a mapping bound to GET declared before a bare nested Finder;
\* GET has both in that order, CONNECT has the nested Finder alone
C12_Witness ==
    /\ pc = "idle"
    /\ ctor.outcome = "returned"
    /\ ctor.urlmaps[2] =
           <<<<Regex(<<"/">>, "none", FALSE), Dict(<<<<"GET", "h1">>>>)>>,
             <<Regex(<<"/", "a">>, "none", FALSE), Bare("sub")>>>>
    /\ finders["outer"].map["get"] =
           <<<<Regex(<<"/">>, "none", FALSE), "h1">>,
             <<Regex(<<"/", "a">>, "none", FALSE), "sub">>>>
    /\ finders["outer"].map["connect"] =
           <<<<Regex(<<"/", "a">>, "none", FALSE), "sub">>>>

\* ------------------------------------------------------------------ captures

\* the pattern whose match led to the handler call on record
CalledRegex ==
    LET c == calls[1]
        p == handled[c.depth].path
    IN  Candidates(c.finder)[Least(Matching(c.finder, p))][1]

\* the text the group of the called pattern captured: what follows the
\* literal, up to the end of the matched span
CapturedText ==
    LET p == handled[calls[1].depth].path
        e == CHOOSE e \in 0..Len(p) : SpanEnd(CalledRegex, p, e)
    IN  SubSeq(p, Len(CalledRegex.lit) + 1, e)

MaxEntries == 3

\* the keys and values the multimaps are exercised with; "a" and "A" differ
\* in case only
Keys == {"a", "A", "b"}

Values == {1, 2}

Last(s) == s[Len(s)]

Front(s) == SubSeq(s, 1, Len(s) - 1)

Without(f, k) == [x \in DOMAIN f \ {k} |-> f[x]]

\* a method's way out: the object as left behind, and the value returned or
\* the exception raised
Ret(o, value) == [o |-> o, outcome |-> "returned", value |-> value]

Err(o, exc) == [o |-> o, outcome |-> "raised", value |-> exc]

\* OrderedMultiDict.__init__ before the update: no nodes, an empty _dict,
\* _head = _tail = None (written 0), _len = 0; the case-insensitive class adds
\* an empty _casemap
OMD_init(cls) ==
    [cls |-> cls, nodes |-> <<>>, dict |-> <<>>, head |-> 0, tail |-> 0,
     len |-> 0, casemap |-> <<>>]

\* node = _OMDNode(): an identity no node of the object has
fresh(o) ==
    CHOOSE i \in 1..(Cardinality(DOMAIN o.nodes) + 1) :
        /\ i \notin DOMAIN o.nodes
        /\ \A j \in 1..(i - 1) : j \in DOMAIN o.nodes

\* a defect: the node goes to the front of the key's list
dict_prepend(dict, key, node) ==
    IF key \in DOMAIN dict
    THEN [dict EXCEPT ![key] = <<node>> \o @]
    ELSE dict @@ (key :> <<node>>)

\* self._dict[key].append(node), _dict being a defaultdict(list)
dict_append(dict, key, node) ==
    IF key \in DOMAIN dict
    THEN [dict EXCEPT ![key] = Append(@, node)]
    ELSE dict @@ (key :> <<node>>)

\* OrderedMultiDict.__setitem__
OMD_setitem(o, key, value) ==
    LET node == fresh(o)
        linked == IF o.head = 0 THEN o.nodes
                  ELSE [o.nodes EXCEPT ![o.tail].next = node]
    IN  [o EXCEPT
            !.nodes = linked @@
                (node :> [key |-> key, value |-> value,
                          prev |-> IF o.head = 0 THEN 0 ELSE o.tail,
                          next |-> 0]),
            !.head = IF o.head = 0 THEN node ELSE o.head,
            !.tail = node,
            !.dict = dict_append(o.dict, key, node),
            !.len = o.len + 1]

\* a defect: _tail is left alone when the last node goes
OMD_remove_node_keeps_tail(o, node) ==
    LET n == o.nodes[node]
        a == IF n.prev # 0 THEN [o.nodes EXCEPT ![n.prev].next = n.next]
             ELSE o.nodes
        b == IF n.next # 0 THEN [a EXCEPT ![n.next].prev = n.prev] ELSE a
    IN  [o EXCEPT
            !.len = o.len - 1,
            !.nodes = b,
            !.head = IF n.prev # 0 THEN o.head ELSE n.next]

\* a defect: the prev link of the node that follows is left alone
OMD_remove_node_keeps_prev(o, node) ==
    LET n == o.nodes[node]
        a == IF n.prev # 0 THEN [o.nodes EXCEPT ![n.prev].next = n.next]
             ELSE o.nodes
    IN  [o EXCEPT
            !.len = o.len - 1,
            !.nodes = a,
            !.head = IF n.prev # 0 THEN o.head ELSE n.next,
            !.tail = IF n.next # 0 THEN o.tail ELSE n.prev]

\* OrderedMultiDict._remove_node: the node is unlinked, and stays an object
\* for as long as the caller holds it
OMD_remove_node(o, node) ==
    LET n == o.nodes[node]
        a == IF n.prev # 0 THEN [o.nodes EXCEPT ![n.prev].next = n.next]
             ELSE o.nodes
        b == IF n.next # 0 THEN [a EXCEPT ![n.next].prev = n.prev] ELSE a
    IN  [o EXCEPT
            !.len = o.len - 1,
            !.nodes = b,
            !.head = IF n.prev # 0 THEN o.head ELSE n.next,
            !.tail = IF n.next # 0 THEN o.tail ELSE n.prev]

\* a defect: the oldest node of the key is the one removed
OMD_remove_first_item(o, key) ==
    IF key \notin DOMAIN o.dict
    THEN Err([o EXCEPT !.dict = o.dict @@ (key :> <<>>)], "IndexError")
    ELSE IF o.dict[key] = <<>> THEN Err(o, "IndexError")
    ELSE LET node == Head(o.dict[key])
             rest == Tail(o.dict[key])
             popped == [o EXCEPT !.dict = IF rest = <<>> THEN Without(o.dict, key)
                                          ELSE [o.dict EXCEPT ![key] = rest]]
         IN  Ret(OMD_remove_node(popped, node), o.nodes[node].value)

\* OrderedMultiDict._remove_last_item; self._dict[key] of a key the
\* defaultdict does not have makes an empty list, whose pop() raises
OMD_remove_last_item(o, key) ==
    IF key \notin DOMAIN o.dict
    THEN Err([o EXCEPT !.dict = o.dict @@ (key :> <<>>)], "IndexError")
    ELSE IF o.dict[key] = <<>> THEN Err(o, "IndexError")
    ELSE LET node == Last(o.dict[key])
             rest == Front(o.dict[key])
             popped == [o EXCEPT !.dict = IF rest = <<>> THEN Without(o.dict, key)
                                          ELSE [o.dict EXCEPT ![key] = rest]]
         IN  Ret(OMD_remove_node(popped, node), o.nodes[node].value)

\* OrderedMultiDict.__getitem__
OMD_getitem(o, key) ==
    IF key \notin DOMAIN o.dict THEN Err(o, "KeyError")
    ELSE Ret(o, o.nodes[Last(o.dict[key])].value)

\* OrderedMultiDict.get(key), default None
OMD_get(o, key) ==
    IF key \notin DOMAIN o.dict THEN Ret(o, None)
    ELSE Ret(o, o.nodes[Last(o.dict[key])].value)

\* OrderedMultiDict.itergetall / getall
OMD_getall(o, key) ==
    IF key \notin DOMAIN o.dict THEN <<>>
    ELSE [i \in 1..Len(o.dict[key]) |-> o.nodes[o.dict[key][i]].value]

\* for node in nodes: self._remove_node(node); result.append(node.value)
RECURSIVE remove_nodes(_, _, _, _)
remove_nodes(o, nodes, i, out) ==
    IF i > Len(nodes) THEN Ret(o, out)
    ELSE remove_nodes(OMD_remove_node(o, nodes[i]), nodes, i + 1,
                      Append(out, o.nodes[nodes[i]].value))

\* a defect: the key is dropped from _dict and its nodes stay on the list
OMD_popall_index_only(o, key) ==
    IF key \notin DOMAIN o.dict THEN Ret(o, <<>>)
    ELSE Ret([o EXCEPT !.dict = Without(o.dict, key)],
             [i \in 1..Len(o.dict[key]) |-> o.nodes[o.dict[key][i]].value])

\* OrderedMultiDict.popall: self._dict.pop(key, ()) and the loop over it
OMD_popall(o, key) ==
    IF key \notin DOMAIN o.dict THEN Ret(o, <<>>)
    ELSE remove_nodes([o EXCEPT !.dict = Without(o.dict, key)],
                      o.dict[key], 1, <<>>)


\* ------------------------------------------ CaseInsensitiveOrderedMultiDict

\* self._casemap[lower] of the defaultdict: the (list, set) pair of the
\* spellings seen for the folded key, made empty when there is none yet
NoSpellings == [lst |-> <<>>, st |-> {}]

casemap_item(casemap, lower) ==
    IF lower \in DOMAIN casemap THEN casemap[lower] ELSE NoSpellings

casemap_put(casemap, lower, pair) ==
    IF lower \in DOMAIN casemap THEN [casemap EXCEPT ![lower] = pair]
    ELSE casemap @@ (lower :> pair)

\* a defect: the entry is stored under the folded key
CI_setitem_folded(o, key, value) ==
    LET lower == Lower(key)
        o1 == OMD_setitem(o, lower, value)
        pair == casemap_item(o1.casemap, lower)
    IN  [o1 EXCEPT !.casemap =
            casemap_put(o1.casemap, lower,
                        IF lower \in pair.st THEN pair
                        ELSE [lst |-> Append(pair.lst, lower),
                              st |-> pair.st \cup {lower}])]

\* CaseInsensitiveOrderedMultiDict.__setitem__
CI_setitem(o, key, value) ==
    LET o1 == OMD_setitem(o, key, value)
        pair == casemap_item(o1.casemap, Lower(key))
    IN  [o1 EXCEPT !.casemap =
            casemap_put(o1.casemap, Lower(key),
                        IF key \in pair.st THEN pair
                        ELSE [lst |-> Append(pair.lst, key),
                              st |-> pair.st \cup {key}])]

\* a defect: a spelling that has lost its last entry is not retired
CI_remove_last_item_keeps_spelling(o, key) ==
    LET lower == Lower(key)
        pair == casemap_item(o.casemap, lower)
        o1 == [o EXCEPT !.casemap = casemap_put(o.casemap, lower, pair)]
    IN  IF pair.lst = <<>> THEN Err(o1, "IndexError")
        ELSE OMD_remove_last_item(o1, Last(pair.lst))

\* CaseInsensitiveOrderedMultiDict._remove_last_item: the spelling it works
\* on is the last of the list, whatever key it was given
CI_remove_last_item(o, key) ==
    LET lower == Lower(key)
        pair == casemap_item(o.casemap, lower)
        o1 == [o EXCEPT !.casemap = casemap_put(o.casemap, lower, pair)]
    IN  IF pair.lst = <<>> THEN Err(o1, "IndexError")
        ELSE LET spelling == Last(pair.lst)
                 r == OMD_remove_last_item(o1, spelling)
                 left == [lst |-> Front(pair.lst), st |-> pair.st \ {spelling}]
             IN  IF r.outcome = "raised" THEN r
                 ELSE IF spelling \in DOMAIN r.o.dict THEN r
                 ELSE Ret([r.o EXCEPT !.casemap =
                              IF left.lst = <<>> THEN Without(r.o.casemap, lower)
                              ELSE [r.o.casemap EXCEPT ![lower] = left]],
                          r.value)

\* ------------------------------------- calls on self, resolved by the class

\* self[key] = value
setitem(o, key, value) ==
    IF o.cls = "CaseInsensitiveOrderedMultiDict"
    THEN CI_setitem(o, key, value)
    ELSE OMD_setitem(o, key, value)

\* self._remove_last_item(key)
remove_last_item(o, key) ==
    IF o.cls = "CaseInsensitiveOrderedMultiDict"
    THEN CI_remove_last_item(o, key)
    ELSE OMD_remove_last_item(o, key)

\* a defect: the key is not looked for before its last item is removed
OMD_delitem_unchecked(o, key) ==
    LET r == remove_last_item(o, key)
    IN  IF r.outcome = "raised" THEN r ELSE Ret(r.o, None)

\* OrderedMultiDict.__delitem__
OMD_delitem(o, key) ==
    IF key \notin DOMAIN o.dict THEN Err(o, "KeyError")
    ELSE LET r == remove_last_item(o, key)
         IN  IF r.outcome = "raised" THEN r ELSE Ret(r.o, None)

\* OrderedMultiDict.pop(key), without a default
OMD_pop(o, key) ==
    IF key \notin DOMAIN o.dict THEN Err(o, "KeyError")
    ELSE remove_last_item(o, key)

\* a defect: every entry of the tail's key goes, as in popitemall
OMD_popitem_all(o) ==
    IF o.tail = 0 THEN Err(o, "KeyError")
    ELSE LET key == o.nodes[o.tail].key
             r == OMD_popall(o, key)
         IN  Ret(r.o, <<key, Last(r.value)>>)

\* OrderedMultiDict.popitem
OMD_popitem(o) ==
    IF o.tail = 0 THEN Err(o, "KeyError")
    ELSE LET key == o.nodes[o.tail].key
             r == remove_last_item(o, key)
         IN  IF r.outcome = "raised" THEN r ELSE Ret(r.o, <<key, r.value>>)

\* a defect: the entries the key has stay, the new one is added
OMD_replace_keeps_old(o, key, value) == Ret(setitem(o, key, value), None)

\* OrderedMultiDict.replace
OMD_replace(o, key, value) ==
    Ret(setitem(OMD_popall(o, key).o, key, value), None)

\* CaseInsensitiveOrderedMultiDict.__getitem__
CI_getitem(o, key) ==
    IF Lower(key) \notin DOMAIN o.casemap THEN Err(o, "KeyError")
    ELSE OMD_getitem(o, Last(o.casemap[Lower(key)].lst))

\* CaseInsensitiveOrderedMultiDict.get(key), default None
CI_get(o, key) ==
    IF Lower(key) \notin DOMAIN o.casemap THEN Ret(o, None)
    ELSE OMD_getitem(o, Last(o.casemap[Lower(key)].lst))

\* CaseInsensitiveOrderedMultiDict.__delitem__
CI_delitem(o, key) ==
    IF Lower(key) \in DOMAIN o.casemap
    THEN OMD_delitem(o, Last(o.casemap[Lower(key)].lst))
    ELSE OMD_delitem(o, key)

\* CaseInsensitiveOrderedMultiDict.pop(key), without a default
CI_pop(o, key) ==
    IF Lower(key) \notin DOMAIN o.casemap THEN Err(o, "KeyError")
    ELSE OMD_pop(o, Last(o.casemap[Lower(key)].lst))

\* for key in lst: the values of each spelling, one spelling after the other
RECURSIVE getall_spellings(_, _, _)
getall_spellings(o, lst, i) ==
    IF i > Len(lst) THEN <<>>
    ELSE OMD_getall(o, lst[i]) \o getall_spellings(o, lst, i + 1)

\* CaseInsensitiveOrderedMultiDict.itergetall, through getall
CI_getall(o, key) ==
    getall_spellings(o, casemap_item(o.casemap, Lower(key)).lst, 1)

\* for key in lst: results.extend(super().popall(key))
RECURSIVE popall_spellings(_, _, _, _)
popall_spellings(o, lst, i, results) ==
    IF i > Len(lst) THEN Ret(o, results)
    ELSE LET r == OMD_popall(o, lst[i])
         IN  popall_spellings(r.o, lst, i + 1, results \o r.value)

\* CaseInsensitiveOrderedMultiDict.popall: self._casemap.pop(lower) has no
\* default
CI_popall(o, key) ==
    IF Lower(key) \notin DOMAIN o.casemap THEN Err(o, "KeyError")
    ELSE popall_spellings(
            [o EXCEPT !.casemap = Without(o.casemap, Lower(key))],
            o.casemap[Lower(key)].lst, 1, <<>>)

\* a defect: only the entries of the exact key are replaced
CI_replace_exact(o, key, value) ==
    Ret(CI_setitem(OMD_popall(o, key).o, key, value), None)

\* CaseInsensitiveOrderedMultiDict.replace
CI_replace(o, key, value) ==
    LET lower == Lower(key)
        o1 == IF lower \in DOMAIN o.casemap
              THEN popall_spellings(o, o.casemap[lower].lst, 1, <<>>).o
              ELSE o
        o2 == [o1 EXCEPT !.casemap =
                  casemap_put(o1.casemap, lower,
                              [lst |-> <<key>>, st |-> {key}])]
    IN  Ret(OMD_setitem(o2, key, value), None)

\* ----------------------------------------------------------- the iterators

\* _iternodes: from _head along next until None.  A list of n nodes is walked
\* in n steps; a walk still going after that would never end, and is cut off
\* one node later.
RECURSIVE iternodes_from(_, _, _)
iternodes_from(o, node, fuel) ==
    IF node = 0 \/ fuel = 0 THEN <<>>
    ELSE <<node>> \o iternodes_from(o, o.nodes[node].next, fuel - 1)

iternodes(o) == iternodes_from(o, o.head, Cardinality(DOMAIN o.nodes) + 1)

\* items(): list(self.iteritems())
items(o) ==
    LET walk == iternodes(o)
    IN  [i \in 1..Len(walk) |-> <<o.nodes[walk[i]].key, o.nodes[walk[i]].value>>]

\* iterkeys: a key is yielded unless it is in shown
RECURSIVE iterkeys_from(_, _, _, _)
iterkeys_from(o, walk, i, shown) ==
    IF i > Len(walk) THEN <<>>
    ELSE LET key == o.nodes[walk[i]].key
         IN  IF key \in shown THEN iterkeys_from(o, walk, i + 1, shown)
             ELSE <<key>> \o iterkeys_from(o, walk, i + 1, shown \cup {key})

\* keys(): list(self.iterkeys())
keys(o) == iterkeys_from(o, iternodes(o), 1, {})


\* ------------------------------------------------- methods, by the class

IsCI(o) == o.cls = "CaseInsensitiveOrderedMultiDict"

\* key in obj
contains(o, key) ==
    IF IsCI(o) THEN Lower(key) \in DOMAIN o.casemap ELSE key \in DOMAIN o.dict

\* obj[key]
getitem(o, key) == IF IsCI(o) THEN CI_getitem(o, key) ELSE OMD_getitem(o, key)

\* obj.get(key)
get(o, key) == IF IsCI(o) THEN CI_get(o, key) ELSE OMD_get(o, key)

\* obj.getall(key)
getall(o, key) ==
    Ret(o, IF IsCI(o) THEN CI_getall(o, key) ELSE OMD_getall(o, key))

\* del obj[key]
delitem(o, key) == IF IsCI(o) THEN CI_delitem(o, key) ELSE OMD_delitem(o, key)

\* obj.pop(key)
pop(o, key) == IF IsCI(o) THEN CI_pop(o, key) ELSE OMD_pop(o, key)

\* obj.popitem(), which the case-insensitive class inherits
popitem(o) == OMD_popitem(o)

\* obj.popall(key)
popall(o, key) == IF IsCI(o) THEN CI_popall(o, key) ELSE OMD_popall(o, key)

\* obj.replace(key, value)
replace(o, key, value) ==
    IF IsCI(o) THEN CI_replace(o, key, value) ELSE OMD_replace(o, key, value)

\* update(arg): for key, value in arg.iteritems(): self[key] = value
RECURSIVE update(_, _, _)
update(o, pairs, i) ==
    IF i > Len(pairs) THEN o
    ELSE update(setitem(o, pairs[i][1], pairs[i][2]), pairs, i + 1)

\* OrderedMultiDict.pop(key, default)
OMD_pop_default(o, key, default) ==
    IF key \notin DOMAIN o.dict THEN Ret(o, default)
    ELSE remove_last_item(o, key)

\* CaseInsensitiveOrderedMultiDict.pop(key, default)
CI_pop_default(o, key, default) ==
    IF Lower(key) \notin DOMAIN o.casemap THEN Ret(o, default)
    ELSE OMD_pop(o, Last(o.casemap[Lower(key)].lst))

\* OrderedMultiDict.popitemall, which the case-insensitive class inherits
OMD_popitemall(o) ==
    IF o.tail = 0 THEN Err(o, "KeyError")
    ELSE LET key == o.nodes[o.tail].key
             r == popall(o, key)
         IN  IF r.outcome = "raised" THEN r ELSE Ret(r.o, <<key, r.value>>)

\* OrderedMultiDict.setdefault
OMD_setdefault(o, key, value) ==
    IF key \in DOMAIN o.dict THEN Ret(o, o.nodes[Last(o.dict[key])].value)
    ELSE Ret(setitem(o, key, value), value)

\* CaseInsensitiveOrderedMultiDict.setdefault
CI_setdefault(o, key, value) ==
    IF Lower(key) \in DOMAIN o.casemap
    THEN OMD_setdefault(o, Last(o.casemap[Lower(key)].lst), value)
    ELSE OMD_setdefault(o, key, value)

\* OrderedMultiDict.clear: the nodes are let go with the _dict and the head
OMD_clear(o) ==
    Ret([o EXCEPT !.nodes = <<>>, !.dict = <<>>, !.head = 0, !.tail = 0,
                  !.len = 0], None)

\* CaseInsensitiveOrderedMultiDict.clear
CI_clear(o) == Ret([OMD_clear(o).o EXCEPT !.casemap = <<>>], None)

\* the lists of pairs that update is called with
UpdateLists ==
    <<<<<<"a", 1>>, <<"A", 2>>>>, <<<<"b", 1>>, <<"a", 2>>>>, <<<<"A", 1>>>>>>

\* obj.name(key, value), by the class of obj; for update, value says which
\* of UpdateLists it is given
call(o, name, key, value) ==
    CASE name = "set" -> Ret(setitem(o, key, value), None)
      [] name = "getitem" -> getitem(o, key)
      [] name = "get" -> get(o, key)
      [] name = "getall" -> getall(o, key)
      [] name = "delete" -> delitem(o, key)
      [] name = "pop" -> pop(o, key)
      [] name = "pop_default" ->
            IF IsCI(o) THEN CI_pop_default(o, key, value)
            ELSE OMD_pop_default(o, key, value)
      [] name = "popitem" -> popitem(o)
      [] name = "popitemall" -> OMD_popitemall(o)
      [] name = "popall" -> popall(o, key)
      [] name = "replace" -> replace(o, key, value)
      [] name = "setdefault" ->
            IF IsCI(o) THEN CI_setdefault(o, key, value)
            ELSE OMD_setdefault(o, key, value)
      [] name = "update" -> Ret(update(o, UpdateLists[value], 1), None)
      [] name = "clear" -> IF IsCI(o) THEN CI_clear(o) ELSE OMD_clear(o)

\* a defect: copy() hands back the object itself
copy_self(heap, id) == [heap |-> heap, id |-> id]

\* copy(): type(self)(self), a new object of the same class filled by update
\* from the items of this one
copy(heap, id) ==
    LET new == CHOOSE i \in 1..(Cardinality(DOMAIN heap) + 1) : i \notin DOMAIN heap
    IN  [heap |-> heap @@
                    (new :> update(OMD_init(heap[id].cls), items(heap[id]), 1)),
         id |-> new]

\* Nodes are told apart by identity alone, and a node nothing refers to any
\* more is gone.  When every node the object refers to is on the list, the
\* nodes are named by their place on it.
Canonical(o) ==
    LET walk == iternodes(o)
        listed == {walk[i] : i \in 1..Len(walk)}
        indexed == UNION {{o.dict[k][i] : i \in 1..Len(o.dict[k])} :
                            k \in DOMAIN o.dict}
        place(n) == IF n = 0 THEN 0
                    ELSE CHOOSE i \in 1..Len(walk) : walk[i] = n
        tidy == /\ Cardinality(listed) = Len(walk)
                /\ indexed \subseteq listed
                /\ o.tail \in listed \cup {0}
                /\ \A n \in listed : o.nodes[n].prev \in listed \cup {0}
    IN  IF tidy
        THEN [o EXCEPT
                !.nodes = [i \in 1..Len(walk) |->
                             [o.nodes[walk[i]] EXCEPT !.prev = place(@),
                                                      !.next = place(@)]],
                !.dict = [k \in DOMAIN o.dict |->
                            [i \in 1..Len(o.dict[k]) |-> place(o.dict[k][i])]],
                !.head = place(o.head),
                !.tail = place(o.tail)]
        ELSE o

\* ------------------------------------------------- the multimaps in use

Classes == {"OrderedMultiDict", "CaseInsensitiveOrderedMultiDict"}

\* the program holds the multimap it made and, at times, a copy of it
Refs == {"original", "copy"}

Id(ref) == IF ref = "original" THEN 1 ELSE copied

Held(ref) == ref = "original" \/ copied # 0

\* items() of both multimaps as an operation finds them
Before ==
    [ref \in Refs |-> IF Held(ref) THEN items(omds[Id(ref)]) ELSE <<>>]

InitOMD ==
    /\ finders = [f \in FinderIds |-> Unbuilt]
    /\ request = NoRequest
    /\ pc = None
    /\ cur = None
    /\ path = <<>>
    /\ triple = None
    /\ handled = <<>>
    /\ calls = <<>>
    /\ hooks = <<>>
    /\ result = NoResult
    /\ ctor = NoCtor
    /\ NoFlows
    /\ NoReads
    /\ NoSend
    /\ \E cls \in Classes : omds = (1 :> OMD_init(cls))
    /\ copied = 0
    /\ op = NoOp

\* The program runs an operation, looks at what it gave, and goes on to the
\* next.  While a copy is held, one operation is followed on either multimap,
\* then the copy is let go.
Applicable(ref) ==
    /\ Held(ref)
    /\ IF copied = 0 THEN op = NoOp ELSE op.name = "copy"

\* the method has run on the multimap ref names, and left r
Apply(ref, name, key, value, r) ==
    /\ Applicable(ref)
    /\ r.o.len <= MaxEntries
    /\ omds' = [omds EXCEPT ![Id(ref)] = Canonical(r.o)]
    /\ op' = [name |-> name, obj |-> ref, key |-> key, value |-> value,
              outcome |-> r.outcome, ret |-> r.value, before |-> Before]
    /\ UNCHANGED copied
    /\ UNCHANGED <<finders, request, pc, cur, path, triple, handled, calls,
                   hooks, result, ctor, flows, req, access, sending>>

SetItem(ref, key, value) ==
    Apply(ref, "set", key, value, Ret(setitem(omds[Id(ref)], key, value), None))

GetItem(ref, key) == Apply(ref, "getitem", key, 0, getitem(omds[Id(ref)], key))

Get(ref, key) == Apply(ref, "get", key, 0, get(omds[Id(ref)], key))

GetAll(ref, key) == Apply(ref, "getall", key, 0, getall(omds[Id(ref)], key))

DelItem(ref, key) == Apply(ref, "delete", key, 0, delitem(omds[Id(ref)], key))

Pop(ref, key) == Apply(ref, "pop", key, 0, pop(omds[Id(ref)], key))

PopItem(ref) == Apply(ref, "popitem", None, 0, popitem(omds[Id(ref)]))

PopAll(ref, key) == Apply(ref, "popall", key, 0, popall(omds[Id(ref)], key))

Replace(ref, key, value) ==
    Apply(ref, "replace", key, value, replace(omds[Id(ref)], key, value))

\* obj.pop(key, default)
PopDefault(ref, key, default) ==
    Apply(ref, "pop_default", key, default,
          IF IsCI(omds[Id(ref)]) THEN CI_pop_default(omds[Id(ref)], key, default)
          ELSE OMD_pop_default(omds[Id(ref)], key, default))

PopItemAll(ref) ==
    Apply(ref, "popitemall", None, 0, OMD_popitemall(omds[Id(ref)]))

\* obj.setdefault(key, value)
SetDefault(ref, key, value) ==
    Apply(ref, "setdefault", key, value,
          call(omds[Id(ref)], "setdefault", key, value))

\* obj.update(pairs)
Update(ref, n) ==
    Apply(ref, "update", None, n, call(omds[Id(ref)], "update", None, n))

\* obj.clear()
Clear(ref) == Apply(ref, "clear", None, 0, call(omds[Id(ref)], "clear", None, 0))

\* other = obj.copy()
Copy ==
    /\ copied = 0
    /\ op = NoOp
    /\ LET r == copy(omds, 1)
       IN  /\ omds' = [i \in DOMAIN r.heap |-> Canonical(r.heap[i])]
           /\ copied' = r.id
    /\ op' = [name |-> "copy", obj |-> "original", key |-> None, value |-> 0,
              outcome |-> "returned", ret |-> None, before |-> Before]
    /\ UNCHANGED <<finders, request, pc, cur, path, triple, handled, calls,
                   hooks, result, ctor, flows, req, access, sending>>

\* the next statement: the result is dropped, and so is the copy (del other)
Proceed ==
    /\ op # NoOp
    /\ omds' = IF copied \in {0, 1} THEN omds ELSE Without(omds, copied)
    /\ copied' = 0
    /\ op' = NoOp
    /\ UNCHANGED <<finders, request, pc, cur, path, triple, handled, calls,
                   hooks, result, ctor, flows, req, access, sending>>

NextOMD ==
    \/ \E ref \in Refs, key \in Keys, value \in Values : SetItem(ref, key, value)
    \/ \E ref \in Refs, key \in Keys : GetItem(ref, key)
    \/ \E ref \in Refs, key \in Keys : Get(ref, key)
    \/ \E ref \in Refs, key \in Keys : GetAll(ref, key)
    \/ \E ref \in Refs, key \in Keys : DelItem(ref, key)
    \/ \E ref \in Refs, key \in Keys : Pop(ref, key)
    \/ \E ref \in Refs : PopItem(ref)
    \/ \E ref \in Refs, key \in Keys, default \in Values :
            PopDefault(ref, key, default)
    \/ \E ref \in Refs : PopItemAll(ref)
    \/ \E ref \in Refs, key \in Keys, value \in Values :
            SetDefault(ref, key, value)
    \/ \E ref \in Refs, n \in DOMAIN UpdateLists : Update(ref, n)
    \/ \E ref \in Refs : Clear(ref)
    \/ \E ref \in Refs, key \in Keys : PopAll(ref, key)
    \/ \E ref \in Refs, key \in Keys, value \in Values : Replace(ref, key, value)
    \/ Copy
    \/ Proceed

SpecOMD == InitOMD /\ [][NextOMD]_vars


\* ---------------------------------------------------- claims on the multimaps

\* the multimap the operation on record ran on, as it is now
Obj == omds[Id(op.obj)]

\* items() of that multimap as the operation found it
Was == op.before[op.obj]

\* the operation on record ran on an OrderedMultiDict proper
OnBase(names) ==
    /\ op.name \in names
    /\ Obj.cls = "OrderedMultiDict"

\* the places of the entries of key in a list of items
PlacesOf(s, key) == {i \in 1..Len(s) : s[i][1] = key}

Greatest(S) == CHOOSE k \in S : \A j \in S : j <= k

\* a list without its i-th element
WithoutPlace(s, i) == SubSeq(s, 1, i - 1) \o SubSeq(s, i + 1, Len(s))

\* the entries of other keys, and the values of the entries of key, in order
Others(s, key) == SelectSeq(s, LAMBDA e : e[1] # key)

ValuesOf(s, key) ==
    LET own == SelectSeq(s, LAMBDA e : e[1] = key)
    IN  [i \in 1..Len(own) |-> own[i][2]]

\* C15: set appends exactly one entry, the pair given, at the tail and leaves
\* every entry there was in place; get and indexing return the value of the
\* latest surviving entry of exactly the key asked for.
C15_SetAppendsGetLatest ==
    /\ OnBase({"set"}) =>
            /\ op.outcome = "returned"
            /\ items(Obj) = Append(Was, <<op.key, op.value>>)
            /\ getitem(Obj, op.key) = Ret(Obj, op.value)
            /\ get(Obj, op.key) = Ret(Obj, op.value)
    /\ (OnBase({"get", "getitem"}) /\ PlacesOf(Was, op.key) # {}) =>
            /\ op.outcome = "returned"
            /\ op.ret = Was[Greatest(PlacesOf(Was, op.key))][2]
            /\ items(Obj) = Was

\* C15 witness: a second value was set for "a" after an entry of "b", and
\* indexing then gave the second value
C15_Witness ==
    /\ OnBase({"getitem"})
    /\ op.key = "a"
    /\ Was = <<<<"a", 1>>, <<"b", 1>>, <<"a", 2>>>>
    /\ op.outcome = "returned"
    /\ op.ret = 2

\* C16: delete and pop of a key that has entries remove its latest surviving
\* entry and nothing else, pop returning that entry's value; the entry before
\* it, if there is one, is what the key then gives, the key is present exactly
\* when there is one, and the other entries keep their order.
C16_DeleteLatest ==
    (OnBase({"delete", "pop"}) /\ PlacesOf(Was, op.key) # {}) =>
        LET last == Greatest(PlacesOf(Was, op.key))
            older == PlacesOf(Was, op.key) \ {last}
        IN  /\ op.outcome = "returned"
            /\ items(Obj) = WithoutPlace(Was, last)
            /\ (op.name = "pop" => op.ret = Was[last][2])
            /\ (contains(Obj, op.key) <=> older # {})
            /\ (older # {} =>
                    getitem(Obj, op.key) = Ret(Obj, Was[Greatest(older)][2]))

\* C16 witness: del m["a"] took the later of the two entries of "a", and "a"
\* gives the value of the earlier one again
C16_Witness ==
    /\ OnBase({"delete"})
    /\ op.key = "a"
    /\ Was = <<<<"a", 1>>, <<"b", 1>>, <<"a", 2>>>>
    /\ items(Obj) = <<<<"a", 1>>, <<"b", 1>>>>
    /\ getitem(Obj, "a").value = 1

\* the entries that survive the operation on record, by what each operation
\* is to remove and to add
Surviving ==
    LET places == PlacesOf(Was, op.key)
    IN  CASE op.name = "set" -> Append(Was, <<op.key, op.value>>)
          [] op.name \in {"delete", "pop"} ->
                IF places = {} THEN Was ELSE WithoutPlace(Was, Greatest(places))
          [] op.name = "popitem" -> IF Was = <<>> THEN Was ELSE Front(Was)
          [] op.name = "popall" -> Others(Was, op.key)
          [] op.name = "replace" ->
                Append(Others(Was, op.key), <<op.key, op.value>>)
          [] OTHER -> Was

\* ks holds each key of the items s once, in the order of the first entries
DistinctKeysOf(ks, s) ==
    /\ {ks[i] : i \in 1..Len(ks)} = {s[i][1] : i \in 1..Len(s)}
    /\ \A i, j \in 1..Len(ks) :
           i < j => /\ ks[i] # ks[j]
                    /\ \E a \in PlacesOf(s, ks[i]) :
                           \A b \in PlacesOf(s, ks[j]) : a < b

Mutations == {"set", "delete", "pop", "popitem", "popall", "replace"}

\* C17: after each of set, delete, pop, popitem, popall and replace, however
\* many went before, items() lists the surviving entries, duplicates and all,
\* in the order they were inserted, and keys() lists each surviving key once,
\* in the order of the keys' first surviving entries.
C17_ItemsAndKeys ==
    OnBase(Mutations) =>
        /\ items(Obj) = Surviving
        /\ DistinctKeysOf(keys(Obj), Surviving)

\* C17 witness: a third entry was set for "a"; items() lists the three
\* entries, two of them equal, and keys() lists the key once
C17_Witness ==
    /\ OnBase({"set"})
    /\ Was = <<<<"a", 1>>, <<"a", 2>>>>
    /\ items(Obj) = <<<<"a", 1>>, <<"a", 2>>, <<"a", 1>>>>
    /\ keys(Obj) = <<"a">>

\* C18: getall gives the values of the key's surviving entries in insertion
\* order, the empty list for a key without entries, and changes nothing;
\* popall removes those entries and no other, gives their values in that
\* order, and leaves the key absent and the other entries in place.
C18_GetallPopall ==
    /\ OnBase({"getall"}) =>
            /\ op.outcome = "returned"
            /\ op.ret = ValuesOf(Was, op.key)
            /\ items(Obj) = Was
    /\ OnBase({"popall"}) =>
            /\ op.outcome = "returned"
            /\ op.ret = ValuesOf(Was, op.key)
            /\ items(Obj) = Others(Was, op.key)
            /\ ~contains(Obj, op.key)
            /\ getall(Obj, op.key).value = <<>>

\* C18 witness: popall("a") gave both values of "a" and left the entry of "b"
C18_Witness ==
    /\ OnBase({"popall"})
    /\ op.key = "a"
    /\ Was = <<<<"a", 1>>, <<"b", 1>>, <<"a", 2>>>>
    /\ op.ret = <<1, 2>>
    /\ items(Obj) = <<<<"b", 1>>>>

\* C19: replace removes every entry the key has and puts one new entry, the
\* pair given, at the tail; the entries of other keys stay as they are; for a
\* key without entries this is what set does.
C19_Replace ==
    OnBase({"replace"}) =>
        /\ op.outcome = "returned"
        /\ items(Obj) = Append(Others(Was, op.key), <<op.key, op.value>>)
        /\ getall(Obj, op.key).value = <<op.value>>
        /\ (PlacesOf(Was, op.key) = {} =>
                items(Obj) = Append(Was, <<op.key, op.value>>))

\* C19 witness: replace("a", 2) over two entries of "a" around one of "b"
C19_Witness ==
    /\ OnBase({"replace"})
    /\ op.key = "a"
    /\ op.value = 2
    /\ Was = <<<<"a", 1>>, <<"b", 1>>, <<"a", 1>>>>
    /\ items(Obj) = <<<<"b", 1>>, <<"a", 2>>>>

\* the multimap the operation on record did not run on
OtherRef == CHOOSE ref \in Refs : ref # op.obj

\* C20: for either class, copy() gives a multimap of that class whose items()
\* are those of the original, which keeps its own; after that a mutation of
\* the copy leaves items() of the original as they were, and a mutation of
\* the original leaves items() of the copy as they were.
C20_CopyIndependent ==
    /\ op.name = "copy" =>
            /\ copied # 0
            /\ omds[copied].cls = omds[1].cls
            /\ items(omds[copied]) = items(omds[1])
            /\ items(omds[1]) = op.before["original"]
    /\ (copied # 0 /\ op.name \in Mutations) =>
            items(omds[Id(OtherRef)]) = op.before[OtherRef]

\* C20 witness: a case-insensitive multimap with two spellings of a key was
\* copied, an entry was popped from the copy, and the original has all three
C20_Witness ==
    /\ copied # 0
    /\ op.name = "popitem"
    /\ op.obj = "copy"
    /\ omds[1].cls = "CaseInsensitiveOrderedMultiDict"
    /\ items(omds[1]) = <<<<"a", 1>>, <<"A", 2>>, <<"b", 1>>>>
    /\ items(omds[copied]) = <<<<"a", 1>>, <<"A", 2>>>>


\* =================================================== dispatches side by side

\* the dispatches in flight: one per thread or greenlet of the server
Flows == {1, 2}

\* the state one dispatch has to itself: its Request, where it is, and what
\* it has done so far
IdleFlow ==
    [request |-> NoRequest, pc |-> "idle", cur |-> None, path |-> <<>>,
     triple |-> None, handled |-> <<>>, calls |-> <<>>, hooks |-> <<>>,
     result |-> NoResult]

\* self._handle(request.path, request) on the outermost Finder
flow_begin(method, p) ==
    [IdleFlow EXCEPT !.request = Request_init(method, p),
                     !.cur = "outer", !.path = p, !.pc = "_handle"]

\* how a method body that ends the dispatch, or goes on into a hook, leaves
\* the dispatch
flow_finish(s, step) ==
    [s EXCEPT
        !.pc = IF step.pc \in {"return", "raise"} THEN "done" ELSE step.pc,
        !.triple = step.triple,
        !.result = CASE step.pc = "return" ->
                            [outcome |-> "returned", value |-> step.value]
                     [] step.pc = "raise" ->
                            [outcome |-> "raised", value |-> step.value]
                     [] OTHER -> s.result]

\* Finder._handle of the Finder the dispatch is in, on the Finders fs; b is
\* how the handler behaves if one is called
flow_handle(fs, s, b) ==
    LET r == resolve(fs[s.cur], s.request.method, s.path)
        s1 == [s EXCEPT !.handled = Append(@, [finder |-> s.cur, path |-> s.path])]
    IN  IF r.handler = None THEN [s1 EXCEPT !.pc = "_on_404"]
        ELSE IF isinstance_Finder(r.handler)
        THEN [s1 EXCEPT !.cur = r.handler, !.path = r.remaining]
        ELSE flow_finish(
                [s1 EXCEPT !.calls =
                    Append(@, [finder |-> s.cur, handler |-> r.handler,
                               depth |-> Len(s.handled) + 1,
                               args |-> r.args, kwargs |-> r.kwargs,
                               behaviour |-> b])],
                handle_call(s.cur, r.handler, b))

\* Finder._on_404 of the Finder the dispatch is in
flow_on_404(fs, s, b) ==
    flow_finish(
        [s EXCEPT !.hooks = Append(@, [finder |-> s.cur, hook |-> "on_404",
                                       triple |-> None, behaviour |-> b])],
        on_404(s.cur, fs[s.cur].overrides, b))

\* Finder._on_500 of the Finder the dispatch is in
flow_on_500(fs, s, b) ==
    flow_finish(
        [s EXCEPT !.hooks = Append(@, [finder |-> s.cur, hook |-> "on_500",
                                       triple |-> s.triple, behaviour |-> b])],
        on_500(s.cur, fs[s.cur].overrides, b))

\* a defect: the method's candidates are taken out of _map by the lookup
map_after_pop(map, key) == [k \in DOMAIN map \ {key} |-> map[k]]

\* self._map.get(key, ()) leaves _map as it is
map_after_get(map, key) == map

\* the urlmaps of the Finders the dispatches share: a nested Finder under
\* ^/a, a handler for GET under ^/
ConcUrlMaps ==
    <<<<<<Regex(<<>>, "named", FALSE), Bare("h2")>>,
        <<Regex(<<"/">>, "pos", TRUE), Dict(<<<<"POST", "h1">>>>)>>>>,
      <<<<Regex(<<"/", "a">>, "none", FALSE), Bare("sub")>>,
        <<Regex(<<"/">>, "none", FALSE), Dict(<<<<"GET", "h1">>>>)>>>>>>

InitConc ==
    /\ finders = [f \in FinderIds |->
                    IF f = "sub" THEN Finder(ConcUrlMaps[1], FALSE)
                    ELSE Finder(ConcUrlMaps[2], FALSE)]
    /\ request = NoRequest
    /\ pc = None
    /\ cur = None
    /\ path = <<>>
    /\ triple = None
    /\ handled = <<>>
    /\ calls = <<>>
    /\ hooks = <<>>
    /\ result = NoResult
    /\ ctor = [urlmaps |-> ConcUrlMaps, outcome |-> "returned",
               value |-> NoValue]
    /\ NoMultimaps
    /\ flows = [i \in Flows |-> IdleFlow]
    /\ NoReads
    /\ NoSend

\* what a step of one of the dispatches leaves alone
aside ==
    <<request, pc, cur, path, triple, handled, calls, hooks, result, ctor,
      omds, copied, op, req, access, sending>>

\* a request comes in while the other dispatch is wherever it is
FlowDispatch(i, method, p) ==
    /\ flows[i].pc = "idle"
    /\ flows' = [flows EXCEPT ![i] = flow_begin(method, p)]
    /\ UNCHANGED finders
    /\ UNCHANGED aside

\* dispatch i runs _handle of the Finder it is in: _resolve looks the
\* method's candidates up in that Finder's _map
FlowHandle(i, b) ==
    /\ flows[i].pc = "_handle"
    /\ flows' = [flows EXCEPT ![i] = flow_handle(finders, flows[i], b)]
    /\ finders' = [finders EXCEPT ![flows[i].cur].map =
                      map_after_get(@, Lower(flows[i].request.method))]
    /\ UNCHANGED aside

FlowOn404(i, b) ==
    /\ flows[i].pc = "_on_404"
    /\ b \in BehavioursOf(flows[i].cur)
    /\ flows' = [flows EXCEPT ![i] = flow_on_404(finders, flows[i], b)]
    /\ UNCHANGED finders
    /\ UNCHANGED aside

FlowOn500(i, b) ==
    /\ flows[i].pc = "_on_500"
    /\ b \in BehavioursOf(flows[i].cur)
    /\ flows' = [flows EXCEPT ![i] = flow_on_500(finders, flows[i], b)]
    /\ UNCHANGED finders
    /\ UNCHANGED aside

\* the adapter has sent the response of dispatch i
FlowDone(i) ==
    /\ flows[i].pc = "done"
    /\ flows' = [flows EXCEPT ![i] = IdleFlow]
    /\ UNCHANGED finders
    /\ UNCHANGED aside

NextConc ==
    \/ \E i \in Flows, method \in RawMethods, p \in Paths :
            FlowDispatch(i, method, p)
    \/ \E i \in Flows, b \in HandlerBehaviours : FlowHandle(i, b)
    \/ \E i \in Flows, b \in HookBehaviours \cup {"default"} : FlowOn404(i, b)
    \/ \E i \in Flows, b \in HookBehaviours \cup {"default"} : FlowOn500(i, b)
    \/ \E i \in Flows : FlowDone(i)

SpecConc == InitConc /\ [][NextConc]_vars


\* ------------------------------------------------------------- concurrency

\* the Finders as their constructors left them
Constructed ==
    [f \in FinderIds |->
        [map |-> Finder_init(EmptyMap,
                             ctor.urlmaps[IF f = "sub" THEN 1 ELSE 2], 1),
         overrides |-> finders[f].overrides]]

\* a dispatch run from state s to its end with nothing else going on, on the
\* Finders fs; hb, nb and eb are how the handler, on_404 and on_500 behave
RECURSIVE RunAlone(_, _, _, _, _)
RunAlone(fs, s, hb, nb, eb) ==
    CASE s.pc = "_handle" -> RunAlone(fs, flow_handle(fs, s, hb), hb, nb, eb)
      [] s.pc = "_on_404" -> RunAlone(fs, flow_on_404(fs, s, nb), hb, nb, eb)
      [] s.pc = "_on_500" -> RunAlone(fs, flow_on_500(fs, s, eb), hb, nb, eb)
      [] OTHER -> s

\* how the hook of that name behaved in dispatch s, if it was called
HookBehaviour(s, hook) ==
    IF \E k \in 1..Len(s.hooks) : s.hooks[k].hook = hook
    THEN s.hooks[CHOOSE k \in 1..Len(s.hooks) : s.hooks[k].hook = hook].behaviour
    ELSE "default"

\* the same request, with the handler and the hooks behaving the same way,
\* dispatched alone on the Finders as constructed
Alone(s) ==
    RunAlone(Constructed,
             flow_begin(s.request.method, s.request.path),
             IF s.calls # <<>> THEN s.calls[1].behaviour
             ELSE [kind |-> "raise", value |-> <<>>],
             HookBehaviour(s, "on_404"),
             HookBehaviour(s, "on_500"))

\* C14: no step of a dispatch changes the candidate lists or anything else of
\* a Finder, the nested one included; and whatever the other dispatch on the
\* same Finders does in between, a dispatch ends with the _handle calls
\* (Finder and remaining path), the handler call (target and captures) and
\* the response it has when it runs alone.
C14_ConcurrentAsAlone ==
    /\ finders = Constructed
    /\ \A i \in DOMAIN flows :
           flows[i].pc = "done" => flows[i] = Alone(flows[i])

\* C14 witness: a GET of /aa went through the nested Finder and ended with
\* the handler's response while a POST of /a/ is inside the nested Finder
C14_Witness ==
    /\ DOMAIN flows = Flows
    /\ flows[1].pc = "done"
    /\ flows[1].request = [method |-> "GET", path |-> <<"/", "a", "a">>]
    /\ Len(flows[1].handled) = 2
    /\ flows[1].calls # <<>>
    /\ flows[1].result.outcome = "returned"
    /\ flows[2].pc = "_handle"
    /\ flows[2].cur = "sub"
    /\ flows[2].request = [method |-> "POST", path |-> <<"/", "a", "/">>]


\* C21: popitem on an OrderedMultiDict that has entries removes the last
\* entry of the insertion order and returns its key with its value; every
\* entry before it, older entries of that key included, stays in place.
C21_PopitemLast ==
    (OnBase({"popitem"}) /\ Was # <<>>) =>
        /\ op.outcome = "returned"
        /\ op.ret = Last(Was)
        /\ items(Obj) = Front(Was)

\* C21 witness: popitem took ("a", 2) and left the older entry of "a"
C21_Witness ==
    /\ OnBase({"popitem"})
    /\ Was = <<<<"a", 1>>, <<"b", 1>>, <<"a", 2>>>>
    /\ op.ret = <<"a", 2>>
    /\ items(Obj) = <<<<"a", 1>>, <<"b", 1>>>>


\* the places of the entries a key stands for in the multimap the operation
\* ran on: those of the key itself, or in the case-insensitive class those of
\* every key that lower-cases as it does
PlacesFor(s, key) ==
    IF IsCI(Obj) THEN {i \in 1..Len(s) : Lower(s[i][1]) = Lower(key)}
    ELSE PlacesOf(s, key)

\* the operation on record raised the exception and left the entries alone
Failed(exc) ==
    /\ op.outcome = "raised"
    /\ op.ret = exc
    /\ items(Obj) = Was

\* C22: in both classes indexing, delete and pop without a default raise
\* KeyError for a key that has no entry, and popitem and popitemall raise
\* KeyError on an empty multimap; the entries are as before after each such
\* call; get gives None and pop with a default gives the default for a key
\* that has no entry, and neither raises.
C22_AbsentKeyErrors ==
    /\ (op.name \in {"getitem", "delete", "pop"} /\ PlacesFor(Was, op.key) = {})
            => Failed("KeyError")
    /\ (op.name \in {"popitem", "popitemall"} /\ Was = <<>>)
            => Failed("KeyError")
    /\ (op.name = "get" /\ PlacesFor(Was, op.key) = {}) =>
            /\ op.outcome = "returned"
            /\ op.ret = None
            /\ items(Obj) = Was
    /\ (op.name = "pop_default" /\ PlacesFor(Was, op.key) = {}) =>
            /\ op.outcome = "returned"
            /\ op.ret = op.value
            /\ items(Obj) = Was

\* C22 witness: del m["A"] on a case-insensitive multimap that holds an
\* entry of "b" only
C22_Witness ==
    /\ op.name = "delete"
    /\ op.key = "A"
    /\ IsCI(Obj)
    /\ Was = <<<<"b", 1>>>>
    /\ op.outcome = "raised"
    /\ op.ret = "KeyError"
    /\ items(Obj) = <<<<"b", 1>>>>


\* the operation on record ran on a CaseInsensitiveOrderedMultiDict
OnCI(names) ==
    /\ op.name \in names
    /\ IsCI(Obj)

\* the keys of Keys that lower-case as key does
Casings(key) == {c \in Keys : Lower(c) = Lower(key)}

\* C23: after m[k] = v on a CaseInsensitiveOrderedMultiDict, k in m, m.get(k)
\* and m[k] succeed for every casing of k, and items() and keys() show the
\* new entry under the key exactly as it was passed.
C23_SetAnyCasing ==
    OnCI({"set"}) =>
        /\ items(Obj) = Append(Was, <<op.key, op.value>>)
        /\ \E i \in 1..Len(keys(Obj)) : keys(Obj)[i] = op.key
        /\ \A c \in Casings(op.key) :
            /\ contains(Obj, c)
            /\ getitem(Obj, c).outcome = "returned"
            /\ get(Obj, c).outcome = "returned"
            /\ get(Obj, c).value = getitem(Obj, c).value

\* C23 witness: m["A"] = 2 on a case-insensitive multimap that held ("b", 1);
\* "a" is in it, m["a"] is 2, and items() ends with ("A", 2)
C23_Witness ==
    /\ OnCI({"set"})
    /\ op.key = "A"
    /\ Was = <<<<"b", 1>>>>
    /\ contains(Obj, "a")
    /\ getitem(Obj, "a").value = 2
    /\ items(Obj) = <<<<"b", 1>>, <<"A", 2>>>>


\* C24: on a CaseInsensitiveOrderedMultiDict, get and indexing of a key that
\* has entries under any casing return the value of the latest surviving
\* entry among all the entries whose key lower-cases as the key does, and
\* delete and pop remove exactly that entry, pop returning its value; the
\* other entries keep their order.
C24_LatestOfAnyCasing ==
    /\ (OnCI({"get", "getitem"}) /\ PlacesFor(Was, op.key) # {}) =>
            /\ op.outcome = "returned"
            /\ op.ret = Was[Greatest(PlacesFor(Was, op.key))][2]
            /\ items(Obj) = Was
    /\ (OnCI({"delete", "pop"}) /\ PlacesFor(Was, op.key) # {}) =>
            /\ op.outcome = "returned"
            /\ items(Obj) = WithoutPlace(Was, Greatest(PlacesFor(Was, op.key)))
            /\ (op.name = "pop" =>
                    op.ret = Was[Greatest(PlacesFor(Was, op.key))][2])


\* the entries whose key does not lower-case as key does, in order
OthersFolded(s, key) == SelectSeq(s, LAMBDA e : Lower(e[1]) # Lower(key))

\* C25: replace(k, v) on a CaseInsensitiveOrderedMultiDict removes every
\* entry whose key lower-cases as k does, whatever its casing, and leaves one
\* entry (k, v), with k as it was passed, at the tail; the entries of the
\* other keys stay as they were, in their order.
C25_ReplaceAnyCasing ==
    OnCI({"replace"}) =>
        /\ op.outcome = "returned"
        /\ items(Obj) = Append(OthersFolded(Was, op.key), <<op.key, op.value>>)

\* C25 witness: replace("A", 1) where "a" and "A" each had an entry around
\* one of "b"
C25_Witness ==
    /\ OnCI({"replace"})
    /\ op.key = "A"
    /\ op.value = 1
    /\ Was = <<<<"a", 1>>, <<"b", 1>>, <<"A", 2>>>>
    /\ items(Obj) = <<<<"b", 1>>, <<"A", 1>>>>


\* the values of the entries whose key lower-cases as key does, in order
ValuesFolded(s, key) ==
    LET own == SelectSeq(s, LAMBDA e : Lower(e[1]) = Lower(key))
    IN  [i \in 1..Len(own) |-> own[i][2]]

\* C26: on a CaseInsensitiveOrderedMultiDict getall(k) returns the values of
\* all the entries whose key lower-cases as k does, in insertion order, and
\* leaves the entries alone; popall(k) of a key that has such entries returns
\* the same list and removes exactly those entries.
C26_AllOfAnyCasing ==
    /\ OnCI({"getall"}) =>
            /\ op.outcome = "returned"
            /\ op.ret = ValuesFolded(Was, op.key)
            /\ items(Obj) = Was
    /\ (OnCI({"popall"}) /\ PlacesFor(Was, op.key) # {}) =>
            /\ op.outcome = "returned"
            /\ op.ret = ValuesFolded(Was, op.key)
            /\ items(Obj) = OthersFolded(Was, op.key)


\* C27: popitem on a CaseInsensitiveOrderedMultiDict that has entries removes
\* the last entry of the insertion order and returns the key and the value of
\* that entry, whatever the casings of the other entries.
C27_PopitemLastAnyCasing ==
    (OnCI({"popitem"}) /\ Was # <<>>) =>
        /\ op.outcome = "returned"
        /\ op.ret = Last(Was)
        /\ items(Obj) = Front(Was)



\* ------------------------------------------------------- the request body

\* the longest request body, and Request.CHUNKSIZE (8192 in the source)
\* brought down to the size of these bodies
MaxBody == 3

CHUNKSIZE == 2

\* the bytes of request bodies and query strings
BodyBytes == {"+", "=", "&"}

Bodies == SeqsUpTo(BodyBytes, MaxBody)

QueryStrings == {<<"a", "=", "+">>}

BodyMethods == {"GET", "post", "PUT"}

\* the Content-Type header of the request, None when it has none
ContentTypes ==
    {None, "application/x-www-form-urlencoded",
     "application/x-form-url-encoded; charset=UTF8", "text/plain"}

\* min(a, b)
min(a, b) == IF a <= b THEN a ELSE b

\* s.find(c), counted from 1: the first place of c in s, 0 when it has none
find(s, c) ==
    IF \A i \in 1..Len(s) : s[i] # c THEN 0
    ELSE CHOOSE i \in 1..Len(s) : s[i] = c /\ \A j \in 1..(i - 1) : s[j] # c

\* s.split(sep)
RECURSIVE split(_, _)
split(s, sep) ==
    IF find(s, sep) = 0 THEN <<s>>
    ELSE <<SubSeq(s, 1, find(s, sep) - 1)>> \o split(Drop(s, find(s, sep)), sep)

\* unquote(s.replace('+', ' ')); BodyBytes has no % escape
unquote_plus(s) == [i \in 1..Len(s) |-> IF s[i] = "+" THEN " " ELSE s[i]]

\* the loop of urlparse.parse_qsl over the pieces between "&": a piece with
\* no "=" or with nothing after its first "=" gives no pair
RECURSIVE parse_pieces(_, _)
parse_pieces(pieces, i) ==
    IF i > Len(pieces) THEN <<>>
    ELSE LET piece == pieces[i]
             eq == find(piece, "=")
         IN  IF eq = 0 \/ eq = Len(piece) THEN parse_pieces(pieces, i + 1)
             ELSE <<<<unquote_plus(SubSeq(piece, 1, eq - 1)),
                      unquote_plus(Drop(piece, eq))>>>>
                  \o parse_pieces(pieces, i + 1)

\* urlparse.parse_qsl(qs)
parse_qsl(qs) == parse_pieces(split(qs, "&"), 1)

\* multipart.parse_options_header(header): the content type before the
\* first ";" and the options after it
parse_options_header(header) ==
    CASE header = "application/x-www-form-urlencoded; charset=UTF8" ->
            <<"application/x-www-form-urlencoded", <<<<"charset", "UTF8">>>>>>
      [] header = "application/x-form-url-encoded; charset=UTF8" ->
            <<"application/x-form-url-encoded", <<<<"charset", "UTF8">>>>>>
      [] OTHER -> <<header, <<>>>>

\* Request.__init__: the fields the body accessors use.  _post is None
\* (written <<>>) or the multimap (written <<multimap>>); headers holds the
\* content type as _parse_headers left it; asked is what the source saw of the
\* latest read: the most bytes one self._bodyfile.read(csize) asked it for
Request_new(method, query, ctype, bodyfile) ==
    [method |-> Upper(method),
     query_params |-> update(OMD_init("OrderedMultiDict"), parse_qsl(query), 1),
     ctype |-> IF ctype = None THEN None ELSE parse_options_header(ctype)[1],
     bodyfile |-> bodyfile,
     rbuf |-> <<>>,
     started_reading |-> FALSE,
     post |-> <<>>,
     asked |-> 0]

\* the while loop of Request.read: collected is the length of the buffer;
\* the i-th self._bodyfile.read(csize) gives the next bytes of the source, at
\* most csize and at most plan[i] of them, and nothing at its end
RECURSIVE read_loop(_, _, _, _, _, _)
read_loop(r, sized, size, csize, plan, i) ==
    IF sized /\ Len(r.rbuf) >= size THEN r
    ELSE IF r.bodyfile = <<>> THEN [r EXCEPT !.asked = IF csize > @ THEN csize ELSE @]
    ELSE LET chunk == SubSeq(r.bodyfile, 1,
                             min(min(csize, plan[i]), Len(r.bodyfile)))
         IN  read_loop([r EXCEPT !.bodyfile = Drop(@, Len(chunk)),
                                 !.rbuf = @ \o chunk,
                                 !.asked = IF csize > @ THEN csize ELSE @],
                       sized, size, csize, plan, i + 1)

\* a defect: what was pulled beyond size is not written back to the buffer
Request_read_drops_overflow(r, sized, size, plan) ==
    LET csize == IF sized THEN min(CHUNKSIZE, size) ELSE CHUNKSIZE
        r1 == read_loop([r EXCEPT !.started_reading = TRUE, !.asked = 0],
                        sized, size, csize, plan, 1)
        everything == r1.rbuf
    IN  IF sized
        THEN Ret([r1 EXCEPT !.rbuf = <<>>],
                 SubSeq(everything, 1, min(size, Len(everything))))
        ELSE Ret([r1 EXCEPT !.rbuf = <<>>], everything)

\* a defect: the source is asked for a whole chunk whatever size is
Request_read_whole_chunks(r, sized, size, plan) ==
    LET csize == CHUNKSIZE
        r1 == read_loop([r EXCEPT !.started_reading = TRUE, !.asked = 0],
                        sized, size, csize, plan, 1)
        everything == r1.rbuf
    IN  IF sized
        THEN Ret([r1 EXCEPT !.rbuf = Drop(everything, size)],
                 SubSeq(everything, 1, min(size, Len(everything))))
        ELSE Ret([r1 EXCEPT !.rbuf = <<>>], everything)

\* Request.read(size) when sized, Request.read() when not
Request_read(r, sized, size, plan) ==
    LET csize == IF sized THEN min(CHUNKSIZE, size) ELSE CHUNKSIZE
        r1 == read_loop([r EXCEPT !.started_reading = TRUE, !.asked = 0],
                        sized, size, csize, plan, 1)
        everything == r1.rbuf
    IN  IF sized
        THEN Ret([r1 EXCEPT !.rbuf = Drop(everything, size)],
                 SubSeq(everything, 1, min(size, Len(everything))))
        ELSE Ret([r1 EXCEPT !.rbuf = <<>>], everything)

UrlEncoded ==
    {"application/x-www-form-urlencoded", "application/x-form-url-encoded"}

\* a defect: the multimap is handed out but not kept in _post
body_params_forgets(r, plan) ==
    IF r.started_reading THEN Err(r, "Exception") @@ [read |-> <<>>]
    ELSE IF /\ r.ctype # None
            /\ r.method \in {"POST", "PUT"}
            /\ parse_options_header(r.ctype)[1] \in UrlEncoded
         THEN LET rd == Request_read(r, FALSE, 0, plan)
              IN  Ret(rd.o, update(OMD_init("OrderedMultiDict"),
                                   parse_qsl(rd.value), 1))
                  @@ [read |-> rd.value]
         ELSE Ret(r, OMD_init("OrderedMultiDict")) @@ [read |-> <<>>]

\* a defect: body_params does not look at _started_reading
body_params_unguarded(r, plan) ==
    IF r.post # <<>> THEN Ret(r, r.post[1]) @@ [read |-> <<>>]
    ELSE LET r1 == [r EXCEPT !.post = <<OMD_init("OrderedMultiDict")>>]
         IN  IF /\ r1.ctype # None
                /\ r1.method \in {"POST", "PUT"}
                /\ parse_options_header(r1.ctype)[1] \in UrlEncoded
             THEN LET rd == Request_read(r1, FALSE, 0, plan)
                      post == update(r1.post[1], parse_qsl(rd.value), 1)
                  IN  Ret([rd.o EXCEPT !.post = <<post>>], post)
                      @@ [read |-> rd.value]
             ELSE Ret(r1, r1.post[1]) @@ [read |-> <<>>]

\* Request.body_params; read is what its self.read() returned, if it ran
body_params(r, plan) ==
    IF r.post # <<>> THEN Ret(r, r.post[1]) @@ [read |-> <<>>]
    ELSE IF r.started_reading
    THEN Err(r, "Exception") @@ [read |-> <<>>]
    ELSE LET r1 == [r EXCEPT !.post = <<OMD_init("OrderedMultiDict")>>]
         IN  IF /\ r1.ctype # None
                /\ r1.method \in {"POST", "PUT"}
                /\ parse_options_header(r1.ctype)[1] \in UrlEncoded
             THEN LET rd == Request_read(r1, FALSE, 0, plan)
                      post == update(r1.post[1], parse_qsl(rd.value), 1)
                  IN  Ret([rd.o EXCEPT !.post = <<post>>], post)
                      @@ [read |-> rd.value]
             ELSE Ret(r1, r1.post[1]) @@ [read |-> <<>>]

\* Request.params
params(r, plan) ==
    LET copied_query == update(OMD_init(r.query_params.cls),
                               items(r.query_params), 1)
        b == body_params(r, plan)
    IN  IF b.outcome = "raised" THEN b
        ELSE [b EXCEPT !.value = update(copied_query, items(b.value), 1)]

\* how the source may cut the chunks of the next n reads short: each read
\* gets a single byte or as many as it asks for
Plans(n) == [1..n -> {1, CHUNKSIZE}]

\* the most reads of the source a read(size) can make: each read that is not
\* at the end of the source brings the buffer at least one byte nearer size
SourceReads(r, size) ==
    IF size <= Len(r.rbuf) THEN 0 ELSE min(Len(r.bodyfile), size - Len(r.rbuf))

InitBody ==
    /\ finders = [f \in FinderIds |-> Unbuilt]
    /\ request = NoRequest
    /\ pc = None
    /\ cur = None
    /\ path = <<>>
    /\ triple = None
    /\ handled = <<>>
    /\ calls = <<>>
    /\ hooks = <<>>
    /\ result = NoResult
    /\ ctor = NoCtor
    /\ NoFlows
    /\ NoMultimaps
    /\ NoSend
    /\ \E method \in BodyMethods, query \in QueryStrings,
          ctype \in ContentTypes, body \in Bodies :
            /\ req = Request_new(method, query, ctype, body)
            /\ access = [body |-> body, returned |-> <<>>, name |-> "none",
                         size |-> 0, outcome |-> "none", ret |-> <<>>]

\* an access to the Request: r is how its method ended, given the bytes that
\* read handed out in it
Access(name, size, r, given) ==
    /\ req' = r.o
    /\ access' = [body |-> access.body,
                  returned |-> access.returned \o given,
                  name |-> name, size |-> size, outcome |-> r.outcome,
                  ret |-> r.value]
    /\ UNCHANGED <<finders, request, pc, cur, path, triple, handled, calls,
                   hooks, result, ctor, omds, copied, op, flows, sending>>

\* request.read(size)
Read(size) ==
    \E plan \in Plans(SourceReads(req, size)) :
        Access("read", size, Request_read(req, TRUE, size, plan),
               Request_read(req, TRUE, size, plan).value)

\* request.read(); the size on record is one no read(size) is given
ReadAll ==
    \E plan \in Plans(Len(req.bodyfile)) :
        Access("read", MaxBody + 1, Request_read(req, FALSE, 0, plan),
               Request_read(req, FALSE, 0, plan).value)

\* request.body_params
BodyParams ==
    \E plan \in Plans(Len(req.bodyfile)) :
        Access("body_params", 0, body_params(req, plan),
               body_params(req, plan).read)

\* request.params
Params ==
    \E plan \in Plans(Len(req.bodyfile)) :
        Access("params", 0, params(req, plan), params(req, plan).read)

NextBody ==
    \/ \E size \in 0..MaxBody : Read(size)
    \/ ReadAll
    \/ BodyParams
    \/ Params

SpecBody == InitBody /\ [][NextBody]_vars



\* ------------------------------------------- claims about the request body

\* C28: a read(size) with size >= 0 returns the next min(size, bytes not yet
\* returned) bytes of the body, in order, however short the chunks of the
\* source are, and read() returns all the bytes not yet returned; what the
\* reads have returned so far is a prefix of the body, and with the bytes
\* held in the buffer and those still in the source it makes up the body, so
\* no byte is lost, doubled or out of place.
C28_ReadsInOrder ==
    /\ access.returned \o req.rbuf \o req.bodyfile = access.body
    /\ access.name = "read" =>
        LET had == Len(access.returned) - Len(access.ret)
        IN  /\ access.outcome = "returned"
            /\ access.ret =
                    SubSeq(access.body, had + 1,
                           had + min(access.size, Len(access.body) - had))

\* C28 witness: the source gave one byte and then two to a read(2) of a body
\* of three, which returned the first two bytes and kept the third
C28_Witness ==
    /\ access.name = "read"
    /\ access.size = 2
    /\ access.body = <<"+", "=", "&">>
    /\ access.ret = <<"+", "=">>
    /\ req.rbuf = <<"&">>
    /\ req.bodyfile = <<>>


\* the request is one whose body body_params decodes
FormRequest(r) ==
    /\ r.method \in {"POST", "PUT"}
    /\ r.ctype \in UrlEncoded

\* C29: an access to body_params of a Request nothing has read from and that
\* has no body parameters yet drains the body and keeps the decoded pairs of
\* the whole body when the method is POST or PUT and the content type is
\* URL-encoded form data, and otherwise keeps an empty multimap and reads
\* nothing; an access to body_params of a Request that has its body
\* parameters returns that same multimap and leaves the Request, its body
\* included, as it is.
C29_BodyParamsOnce ==
    [][access'.name = "body_params" =>
        IF req.post # <<>>
        THEN /\ access'.outcome = "returned"
             /\ access'.ret = req.post[1]
             /\ req' = req
        ELSE ~req.started_reading =>
             /\ access'.outcome = "returned"
             /\ req'.post = <<access'.ret>>
             /\ IF FormRequest(req)
                THEN /\ items(access'.ret) = parse_qsl(access.body)
                     /\ req'.bodyfile = <<>>
                     /\ req'.rbuf = <<>>
                ELSE /\ items(access'.ret) = <<>>
                     /\ req'.bodyfile = req.bodyfile
                     /\ req'.rbuf = req.rbuf
                     /\ req'.started_reading = req.started_reading]_vars

\* C29 witness: body_params of a POST with the body "+=+" gave the one pair
\* (" ", " "), the source and the buffer are empty, and the pair is kept
C29_Witness ==
    /\ access.name = "body_params"
    /\ access.outcome = "returned"
    /\ req.method = "POST"
    /\ access.body = <<"+", "=", "+">>
    /\ items(access.ret) = <<<<<<" ">>, <<" ">>>>>>
    /\ req.post = <<access.ret>>
    /\ req.bodyfile = <<>>
    /\ req.rbuf = <<>>


\* C30: while a Request has been read from and has no body parameters, every
\* access to body_params and to params raises the Exception, whatever the
\* method and the content type, and leaves the Request as it is; no step
\* takes the Request out of that condition, so the accesses keep failing.
C30_ReadBeforeParamsFails ==
    [][(req.started_reading /\ req.post = <<>>) =>
        /\ req'.started_reading
        /\ req'.post = <<>>
        /\ access'.name \in {"body_params", "params"} =>
            /\ access'.outcome = "raised"
            /\ access'.ret = "Exception"
            /\ req' = req]_vars

\* C30 witness: params of a GET with no content type raised after a read(0),
\* which pulled nothing of a body that has bytes
C30_Witness ==
    /\ access.name = "params"
    /\ access.outcome = "raised"
    /\ access.ret = "Exception"
    /\ req.method = "GET"
    /\ req.ctype = None
    /\ req.started_reading
    /\ req.post = <<>>
    /\ access.body # <<>>
    /\ req.bodyfile = access.body


\* C31: a read of a Request whose body_params has drained a body that had
\* bytes raises; it does not return.
C31_ReadAfterParamsFails ==
    [][(/\ access'.name = "read"
        /\ req.post # <<>>
        /\ FormRequest(req)
        /\ access.body # <<>>) =>
            access'.outcome = "raised"]_vars



\* ------------------------------------------------ finalize and the adapters

\* the most header entries a handler gives its Response
MaxHeaders == 2

\* the header entries of handlers' Responses
HeaderPairs ==
    {<<"content-type", "text/plain">>, <<"CONTENT-TYPE", "text/css">>,
     <<"X-A", "1">>, <<"Set-Cookie", "old=1">>}

CookieNames == {"sid", "lang"}

\* self.cookies.values(): the cookies a handler has set, each name once, in
\* the order the dict gives them
CookieLists ==
    {c \in SeqsUpTo(CookieNames, Cardinality(CookieNames)) :
        \A i, j \in 1..Len(c) : c[i] = c[j] => i = j}

\* m.output(header='')[1:] of the cookie of that name
Morsel_output(name) ==
    CASE name = "sid" -> "sid=1" [] name = "lang" -> "lang=en"

\* Response.default_content_type
default_content_type == "text/html"

\* Response.__init__ and the cookies set on it since; finalize says whether
\* the object's finalize is the one of Response ("base") or an override that
\* raises, finalized how many finalize calls on it have run to their end
Response_new(content, code, headers, cookies, finalize) ==
    [content |-> content,
     code |-> code,
     headers |-> update(OMD_init("CaseInsensitiveOrderedMultiDict"), headers, 1),
     cookies |-> cookies,
     finalize |-> finalize,
     finalized |-> 0]

\* a defect: the content type is looked for under the exact key only
Response_finalize_exact(r) ==
    IF r.finalize = "raises" THEN Err(r, "Exception")
    ELSE LET cookied ==
                update(r.headers,
                       [i \in 1..Len(r.cookies) |->
                            <<"Set-Cookie", Morsel_output(r.cookies[i])>>], 1)
             typed ==
                IF "content-type" \notin DOMAIN cookied.dict
                THEN setitem(cookied, "Content-Type", default_content_type)
                ELSE cookied
         IN  Ret([r EXCEPT !.headers = typed, !.finalized = @ + 1], None)

\* a defect: each cookie replaces the Set-Cookie headers there are
Response_finalize_one_cookie(r) ==
    IF r.finalize = "raises" THEN Err(r, "Exception")
    ELSE LET cookied ==
                IF r.cookies = <<>> THEN r.headers
                ELSE replace(r.headers, "Set-Cookie",
                             Morsel_output(Last(r.cookies))).o
             typed ==
                IF default_content_type # "" /\ ~contains(cookied, "content-type")
                THEN setitem(cookied, "Content-Type", default_content_type)
                ELSE cookied
         IN  Ret([r EXCEPT !.headers = typed, !.finalized = @ + 1], None)

\* Response.finalize
Response_finalize(r) ==
    IF r.finalize = "raises" THEN Err(r, "Exception")
    ELSE LET cookied ==
                update(r.headers,
                       [i \in 1..Len(r.cookies) |->
                            <<"Set-Cookie", Morsel_output(r.cookies[i])>>], 1)
             typed ==
                IF default_content_type # "" /\ ~contains(cookied, "content-type")
                THEN setitem(cookied, "Content-Type", default_content_type)
                ELSE cookied
         IN  Ret([r EXCEPT !.headers = typed, !.finalized = @ + 1], None)

\* what an adapter ends with: start_response / send_reply with the status
\* and the headers of the response, an exception, or a plain return
Sent(r) == [phase |-> "sent", response |-> r, headers |-> items(r.headers)]

Raised(r) == [phase |-> "raised", response |-> r, headers |-> <<>>]

NotSent(r) == [phase |-> "returned", response |-> r, headers |-> <<>>]

\* try: response.finalize(request) / except Exception: response =
\* self._on_500(request, sys.exc_info()), and then the sending, of both
\* adapters; the Finder is outer, whose on_500 behaves as b
finalize_and_send(response, overrides, b) ==
    LET done == Response_finalize(response)
        hook == on_500("outer", overrides, b)
    IN  IF done.outcome = "returned" THEN Sent(done.o)
        ELSE IF hook.pc = "raise" THEN Raised(response)
        ELSE IF ~isinstance_Response(hook.value) THEN Raised(response)
        ELSE Sent(Response_new(hook.value.content, hook.value.code,
                               hook.value.headers, <<>>, "base"))

\* Finder.wsgi from the return of self._handle on; none says that _handle
\* returned NoResponse
Finder_wsgi(response, none, overrides, b) ==
    finalize_and_send(
        IF none
        THEN Response_new(<<83, 101, 114, 118, 101, 114, 32, 69, 114, 114, 111, 114>>,
                          500, <<>>, <<>>, "base")
        ELSE response,
        overrides, b)

\* Finder.gevent_http_handle from the return of self._handle on
Finder_gevent_http_handle(response, none, overrides, b) ==
    IF none THEN NotSent(response)
    ELSE finalize_and_send(response, overrides, b)

\* a handler has built its Response and nothing has finalized it
InitSend ==
    /\ finders = [f \in FinderIds |-> Unbuilt]
    /\ request = NoRequest
    /\ pc = None
    /\ cur = None
    /\ path = <<>>
    /\ triple = None
    /\ handled = <<>>
    /\ calls = <<>>
    /\ hooks = <<>>
    /\ result = NoResult
    /\ ctor = NoCtor
    /\ NoFlows
    /\ NoMultimaps
    /\ NoReads
    /\ \E headers \in SeqsUpTo(HeaderPairs, MaxHeaders), cookies \in CookieLists,
          finalize \in {"base", "raises"} :
            sending = [phase |-> "built",
                       response |-> Response_new(<<>>, 200, headers, cookies,
                                                 finalize),
                       headers |-> <<>>,
                       was |-> headers,
                       outcome |-> "none",
                       adapter |-> None]

\* response.finalize(request), called on the Response as it stands
Finalize ==
    /\ sending.phase = "built"
    /\ sending.response.finalized < 2
    /\ sending' = [sending EXCEPT
                      !.response = Response_finalize(sending.response).o,
                      !.outcome = Response_finalize(sending.response).outcome,
                      !.was = items(sending.response.headers)]
    /\ UNCHANGED <<finders, request, pc, cur, path, triple, handled, calls,
                   hooks, result, ctor, omds, copied, op, flows, req, access>>

\* an adapter serves a request whose handler gave the Response, which nothing
\* has finalized, or NoResponse
Serve(adapter, none, overrides, b) ==
    /\ sending.phase = "built"
    /\ sending.response.finalized = 0
    /\ sending.outcome = "none"
    /\ sending' =
          [outcome |-> "none", was |-> items(sending.response.headers),
           adapter |-> adapter]
          @@ IF adapter = "wsgi"
             THEN Finder_wsgi(sending.response, none, overrides, b)
             ELSE Finder_gevent_http_handle(sending.response, none, overrides, b)
    /\ UNCHANGED <<finders, request, pc, cur, path, triple, handled, calls,
                   hooks, result, ctor, omds, copied, op, flows, req, access>>

NextSend ==
    \/ Finalize
    \/ \E adapter \in {"wsgi", "gevent"}, none \in BOOLEAN,
          overrides \in BOOLEAN, b \in HookBehaviours :
            Serve(adapter, none, overrides, b)

SpecSend == InitSend /\ [][NextSend]_vars



\* ------------------------------------------------- claims about finalize

\* a finalize call on the Response has just returned
Finalized ==
    /\ sending.phase = "built"
    /\ sending.outcome = "returned"

\* the header entries as they are now
HeadersNow == items(sending.response.headers)

\* the entries of a list of header entries whose name lower-cases to name
EntriesNamed(s, name) == SelectSeq(s, LAMBDA e : Lower(e[1]) = name)

\* C32: after finalize of a Response that had no header whose name is
\* content-type in any casing there is exactly one such header, named
\* Content-Type, with the default value; after finalize of a Response that had
\* one, in whatever casing, the content-type headers are the ones it had.
C32_DefaultContentType ==
    Finalized =>
        IF EntriesNamed(sending.was, "content-type") = <<>>
        THEN EntriesNamed(HeadersNow, "content-type")
                = <<<<"Content-Type", default_content_type>>>>
        ELSE EntriesNamed(HeadersNow, "content-type")
                = EntriesNamed(sending.was, "content-type")

\* C32 witness: finalize of a Response whose one header was CONTENT-TYPE:
\* text/css and that has no cookies left the headers as they were
C32_Witness ==
    /\ Finalized
    /\ sending.response.finalized = 1
    /\ sending.was = <<<<"CONTENT-TYPE", "text/css">>>>
    /\ HeadersNow = <<<<"CONTENT-TYPE", "text/css">>>>


\* C33: a second finalize of a Response leaves the header entries exactly as
\* the first left them, whatever cookies the Response has.
C33_FinalizeIdempotent ==
    (Finalized /\ sending.response.finalized = 2) =>
        HeadersNow = sending.was

\* C34: the first finalize of a Response that has n cookies and had no
\* Set-Cookie header leaves exactly n Set-Cookie headers, one for each
\* cookie, and the headers the Response had come first, as they were and in
\* their order.
C34_OneSetCookieEach ==
    (/\ Finalized
     /\ sending.response.finalized = 1
     /\ EntriesNamed(sending.was, "set-cookie") = <<>>) =>
        /\ EntriesNamed(HeadersNow, "set-cookie")
              = [i \in 1..Len(sending.response.cookies) |->
                    <<"Set-Cookie", Morsel_output(sending.response.cookies[i])>>]
        /\ Len(HeadersNow) >= Len(sending.was)
        /\ SubSeq(HeadersNow, 1, Len(sending.was)) = sending.was

\* C34 witness: finalize of a Response with the header X-A and the cookies
\* sid and lang put a Set-Cookie header for each after X-A
C34_Witness ==
    /\ Finalized
    /\ sending.response.finalized = 1
    /\ sending.response.cookies = <<"sid", "lang">>
    /\ sending.was = <<<<"X-A", "1">>>>
    /\ HeadersNow = <<<<"X-A", "1">>, <<"Set-Cookie", "sid=1">>,
                      <<"Set-Cookie", "lang=en">>,
                      <<"Content-Type", "text/html">>>>


\* C38: the Response whose status and headers an adapter sends has had one
\* finalize call run to its end, and none besides, when they are sent; so it
\* is, too, when finalize of the handler's Response raised and the Response
\* sent is the one self._on_500 gave.
C38_SentFinalizedOnce ==
    sending.phase = "sent" => sending.response.finalized = 1



\* -------------------------------------- claims about the multimaps' insides

\* the nodes of key among those of a walk, in the order of the walk
NodesOf(o, walk, key) == SelectSeq(walk, LAMBDA n : o.nodes[n].key = key)

\* the linked list, the length and the key index of a multimap agree
Healthy(o) ==
    LET walk == iternodes(o)
    IN  /\ \A i, j \in 1..Len(walk) : walk[i] = walk[j] => i = j
        /\ o.head = IF walk = <<>> THEN 0 ELSE walk[1]
        /\ o.tail = IF walk = <<>> THEN 0 ELSE walk[Len(walk)]
        /\ \A i \in 1..Len(walk) :
              /\ o.nodes[walk[i]].prev = IF i = 1 THEN 0 ELSE walk[i - 1]
              /\ o.nodes[walk[i]].next = IF i = Len(walk) THEN 0 ELSE walk[i + 1]
              /\ o.nodes[walk[i]].key \in DOMAIN o.dict
        /\ o.len = Len(walk)
        /\ \A key \in DOMAIN o.dict :
              /\ o.dict[key] # <<>>
              /\ o.dict[key] = NodesOf(o, walk, key)

\* C35: after every operation each multimap in use, of either class, is
\* healthy: the next links from the head run through every entry once, each
\* node's prev link names the node before it, the tail is the last node (head
\* and tail are None when there is no entry), the length is the number of
\* nodes, and the key index gives each key that has entries exactly its
\* nodes, in the order of the list, and has no key without nodes.
C35_Healthy ==
    \A i \in DOMAIN omds : Healthy(omds[i])

\* C35 witness: popall("a") took the first and the last of three entries out
\* of a multimap, which is healthy with the one entry left
C35_Witness ==
    /\ op.name = "popall"
    /\ Was = <<<<"a", 1>>, <<"b", 1>>, <<"a", 2>>>>
    /\ items(Obj) = <<<<"b", 1>>>>
    /\ Healthy(Obj)
    /\ Obj.len = 1



\* the place of the first entry of key among the items
FirstAt(its, key) ==
    CHOOSE i \in 1..Len(its) :
        /\ its[i][1] = key
        /\ \A j \in 1..(i - 1) : its[j][1] # key

\* the fold index of a case-insensitive multimap agrees with its entries
FoldHealthy(o) ==
    LET its == items(o)
        present == {its[i][1] : i \in 1..Len(its)}
    IN  /\ DOMAIN o.casemap = {Lower(k) : k \in present}
        /\ \A lower \in DOMAIN o.casemap :
              LET lst == o.casemap[lower].lst
              IN  /\ {lst[i] : i \in 1..Len(lst)} =
                         {k \in present : Lower(k) = lower}
                  /\ \A i, j \in 1..Len(lst) :
                        /\ lst[i] = lst[j] => i = j
                        /\ i < j => FirstAt(its, lst[i]) < FirstAt(its, lst[j])
                  /\ o.casemap[lower].st = {lst[i] : i \in 1..Len(lst)}

\* C36: after every operation on a case-insensitive multimap, a folded key is
\* in the fold index exactly when an entry that is left folds to it; its list
\* of spellings holds the distinct keys of those entries, each once, in the
\* order of their first entries in the list of all entries, and its set holds
\* the elements of the list.
C36_FoldHealthy ==
    \A i \in DOMAIN omds : IsCI(omds[i]) => FoldHealthy(omds[i])


\* C36 witness: a delete took the only entry of the spelling "A" out of a
\* case-insensitive multimap; the spelling is retired and "a" stays
C36_Witness ==
    /\ op.name = "delete"
    /\ op.outcome = "returned"
    /\ IsCI(Obj)
    /\ Was = <<<<"a", 1>>, <<"A", 1>>, <<"a", 2>>>>
    /\ items(Obj) = <<<<"a", 1>>, <<"a", 2>>>>
    /\ Obj.casemap["a"] = [lst |-> <<"a">>, st |-> {"a"}]



\* -------------------- the case-insensitive multimap against the plain one

\* the operations the two classes are compared on
Compared ==
    {"set", "get", "getitem", "delete", "pop", "popitem", "setdefault",
     "getall", "popall", "popitemall", "replace", "clear"}

\* every key of the items, and the key of the operation on record, is its own
\* lower-case form
AllLowerCase ==
    /\ \A i \in 1..Len(Was) : Lower(Was[i][1]) = Was[i][1]
    /\ op.key # None => Lower(op.key) = op.key

\* an OrderedMultiDict holding the items the operation on record found
Twin == update(OMD_init("OrderedMultiDict"), Was, 1)

\* the operation on record, done on the twin
OnTwin == call(Twin, op.name, op.key, op.value)

\* C37: an operation on a case-insensitive multimap whose keys, like the
\* operation's own, are all lower-case ends as the same operation on an
\* OrderedMultiDict with the same items does: both return or both raise, with
\* the same value or the same error, they hold the same items afterwards and
\* have the same keys as members.
C37_SameAsBase ==
    (/\ op.name \in Compared
     /\ IsCI(Obj)
     /\ AllLowerCase) =>
        /\ OnTwin.outcome = op.outcome
        /\ OnTwin.value = op.ret
        /\ items(OnTwin.o) = items(Obj)
        /\ \A key \in Keys :
              Lower(key) = key => (contains(OnTwin.o, key) <=> contains(Obj, key))



\* ------------------------------------------------- the end of every dispatch

\* the steps the interpreter takes by itself once _handle has been called: a
\* call that has started runs on until it returns or raises
Step ==
    \/ HandleNotFound
    \/ HandleDelegate
    \/ \E b \in HandlerBehaviours : HandleCall(b)
    \/ \E b \in HookBehaviours \cup {"default"} : On404(b)
    \/ \E b \in HookBehaviours \cup {"default"} : On500(b)

SpecLive == Spec /\ WF_vars(Step)

\* the Finders among the targets of Finder f
NestedIn(f) ==
    {g \in FinderIds :
        \E verb \in DOMAIN finders[f].map :
            \E i \in 1..Len(finders[f].map[verb]) :
                finders[f].map[verb][i][2] = g}

\* the longest chain of Finders nested below f, followed for at most left
\* levels
RECURSIVE Nesting(_, _)
Nesting(f, left) ==
    IF left = 0 \/ NestedIn(f) = {} THEN 0
    ELSE LET below == {Nesting(g, left - 1) : g \in NestedIn(f)}
         IN  1 + CHOOSE d \in below : \A x \in below : x <= d

\* the paths the dispatch under way has handed to _handle, outermost first
PathsDown ==
    [i \in 1..Len(handled) |-> handled[i].path]
        \o (IF pc = "_handle" THEN <<path>> ELSE <<>>)

IsSuffix(s, t) ==
    /\ Len(s) <= Len(t)
    /\ s = SubSeq(t, Len(t) - Len(s) + 1, Len(t))

\* C39: a dispatch that has started ends with a result; on its way it enters
\* no more nested Finders than the urlmaps nest, and the path each nested
\* Finder is handed is a suffix of, and no longer than, the path of the
\* Finder above it.
C39_DispatchTerminates ==
    /\ [](/\ Len(PathsDown) <= 1 + Nesting("outer", Cardinality(FinderIds))
          /\ \A i \in 2..Len(PathsDown) : IsSuffix(PathsDown[i], PathsDown[i - 1]))
    /\ (pc = "_handle") ~> (pc = "done" /\ result.outcome # "none")

\* C39 witness: a dispatch went from the outer Finder down into the nested
\* one with a shorter path and ended with a returned result
C39_Witness ==
    /\ pc = "done"
    /\ result.outcome = "returned"
    /\ Len(handled) = 2
    /\ handled[2].finder = "sub"
    /\ Len(handled[2].path) < Len(handled[1].path)
    /\ IsSuffix(handled[2].path, handled[1].path)



\* ------------------------------------------- the bounds of the body reader

\* the read on record was given no size
Unsized == access.size > MaxBody

\* C40: no pull of a read(size) asks the source for more than
\* min(CHUNKSIZE, size) bytes, and none of a read() for more than CHUNKSIZE;
\* with a source that gives no more than it is asked for, the buffer of bytes
\* pulled and not yet returned holds fewer than CHUNKSIZE bytes after every
\* access, and none after a read().
C40_ReaderBounds ==
    /\ Len(req.rbuf) < CHUNKSIZE
    /\ (access.name = "read" /\ ~Unsized) =>
            req.asked <= min(CHUNKSIZE, access.size)
    /\ (access.name = "read" /\ Unsized) =>
            /\ req.asked <= CHUNKSIZE
            /\ req.rbuf = <<>>

\* C40 witness: a read(2) that had one byte from its first pull asked for
\* two more, was given two, and keeps the one beyond size in the buffer
C40_Witness ==
    /\ access.name = "read"
    /\ access.size = 2
    /\ req.asked = 2
    /\ Len(access.ret) = 2
    /\ Len(req.rbuf) = 1
    /\ Len(access.body) = MaxBody

====
